---- MODULE Spec2Model ----
(***************************************************************************)
(* Model of ztfimg: the raw quadrant correction pipeline (raw.py) and the  *)
(* quadrant -> CCD -> focal plane assembly (base.py).                      *)
(*                                                                         *)
(* Pixel values are exact rationals <<num, den>> with den > 0; a zero      *)
(* denominator encodes the non-finite floats: <<0,0>> is NaN, <<1,0>> is   *)
(* +inf and <<-1,0>> is -inf.  A 2D array is a sequence of rows, each row  *)
(* a sequence of values; index 1 of the model is index 0 of numpy.         *)
(***************************************************************************)
EXTENDS Integers, Sequences, FiniteSets, TLC

(***************************************************************************)
(* Bounds of the model.  The instrument shapes are scaled down: the code's *)
(* Quadrant.SHAPE is 3080 x 3072, SHAPE_OVERSCAN is 3080 x 30, the gaps    *)
(* are 672 rows and 488 columns.                                           *)
(***************************************************************************)
QuadRows == 4

QuadCols == 2

OverscanCols == 2

\* ---------------------------------------------------------------------- *
\* Values: exact rationals with IEEE-like non-finite values                *
\* ---------------------------------------------------------------------- *
NaN == <<0, 0>>

Abs(n) == IF n < 0 THEN -n ELSE n

Sign(n) == IF n < 0 THEN -1 ELSE IF n > 0 THEN 1 ELSE 0

RECURSIVE GCD(_, _)
GCD(a, b) == IF b = 0 THEN a ELSE GCD(b, a % b)

\* normal form of the fraction n/d
RNorm(n, d) ==
    IF d = 0 THEN <<Sign(n), 0>>
    ELSE LET g == GCD(Abs(n), Abs(d))
             s == IF d < 0 THEN -1 ELSE 1
         IN  <<(s * n) \div g, (s * d) \div g>>

Int2R(k) == <<k, 1>>

IsFinite(v) == v[2] # 0

IsNaN(v) == v = NaN

RAdd(x, y) ==
    IF IsFinite(x) /\ IsFinite(y) THEN RNorm(x[1] * y[2] + y[1] * x[2], x[2] * y[2])
    ELSE IF IsFinite(y) THEN x
    ELSE IF IsFinite(x) THEN y
    ELSE IF x = y THEN x ELSE NaN

RNeg(x) == <<-x[1], x[2]>>

RSub(x, y) == RAdd(x, RNeg(y))

RMul(x, y) == RNorm(x[1] * y[1], x[2] * y[2])

\* x / y as numpy divides floats: finite/0 is +-inf, 0/0 is NaN
RDiv(x, y) == RNorm(x[1] * y[2], x[2] * y[1])

\* x < y on finite values
RLess(x, y) == x[1] * y[2] < y[1] * x[2]

\* ---------------------------------------------------------------------- *
\* 2D arrays                                                               *
\* ---------------------------------------------------------------------- *
\* the same sequence / array, held as an explicit tuple of values
Vec(s) == s \o <<>>

Mat(x) == Vec([r \in 1..Len(x) |-> Vec(x[r])])

NRows(x) == Len(x)

NCols(x) == IF Len(x) = 0 THEN 0 ELSE Len(x[1])

Shape(x) == <<NRows(x), NCols(x)>>

\* x[::-1, :]
FlipRows(x) == Vec([r \in 1..Len(x) |-> x[Len(x) + 1 - r]])

\* x[:, ::-1]
FlipCols(x) == Mat([r \in 1..Len(x) |-> [c \in 1..Len(x[r]) |-> x[r][Len(x[r]) + 1 - c]]])

\* x[:, lo:hi] with 0 <= lo <= hi <= number of columns (python half-open slice)
SliceCols(x, lo, hi) == Vec([r \in 1..Len(x) |-> SubSeq(x[r], lo + 1, hi)])

\* numpy.hstack([x, y]) / concatenate(axis=1) of two arrays with equal row counts
HStack(x, y) == Vec([r \in 1..Len(x) |-> x[r] \o y[r]])

\* concatenate(axis=0)
VStack(x, y) == x \o y

\* an array filled with one value
Full(nr, nc, v) == Mat([r \in 1..nr |-> [c \in 1..nc |-> v]])

\* ---------------------------------------------------------------------- *
\* 1D statistics (numpy.nanmean, numpy.nanmedian, numpy.median, nmad)      *
\* ---------------------------------------------------------------------- *
RECURSIVE RSum(_)
RSum(s) == IF Len(s) = 0 THEN Int2R(0) ELSE RAdd(s[1], RSum(Tail(s)))

DropNaN(s) == SelectSeq(s, LAMBDA v : ~IsNaN(v))

HasNaN(s) == \E i \in 1..Len(s) : IsNaN(s[i])

RemoveAt(s, i) == SubSeq(s, 1, i - 1) \o SubSeq(s, i + 1, Len(s))

RECURSIVE SortR(_)
SortR(s) ==
    IF Len(s) <= 1 THEN s
    ELSE LET m == CHOOSE i \in 1..Len(s) : \A j \in 1..Len(s) : ~RLess(s[j], s[i])
         IN  <<s[m]>> \o SortR(RemoveAt(s, m))

\* numpy.mean: the sum over the count (0/0 = NaN on an empty input)
Mean(s) == RDiv(RSum(s), Int2R(Len(s)))

\* numpy.median: NaN if any NaN; middle value, or mean of the two middle values
Median(s) ==
    IF Len(s) = 0 \/ HasNaN(s) THEN NaN
    ELSE LET t == SortR(s)
             n == Len(t)
         IN  IF n % 2 = 1 THEN t[(n + 1) \div 2]
             ELSE RDiv(RAdd(t[n \div 2], t[n \div 2 + 1]), Int2R(2))

NanMean(s) == Mean(DropNaN(s))

NanMedian(s) == Median(DropNaN(s))

RAbs(v) == <<Abs(v[1]), v[2]>>

\* scipy.stats.median_abs_deviation(spec) with its default scale of 1
nmad(s) ==
    LET m == Median(s)
    IN  Median(Vec([i \in 1..Len(s) |-> RAbs(RSub(s[i], m))]))

\* getattr(np, name) for the statistics the model draws from
NpStat(name, s) ==
    CASE name = "nanmean"   -> NanMean(s)
      [] name = "nanmedian" -> NanMedian(s)
      [] name = "mean"      -> Mean(s)
      [] name = "median"    -> Median(s)

\* np.<stat>(x, axis=axis) of a 2D array: axis 1 collapses the columns of
\* each row, axis 0 collapses the rows of each column
StatAxis(name, x, axis) ==
    IF axis = 1 THEN Vec([r \in 1..NRows(x) |-> NpStat(name, x[r])])
    ELSE Vec([c \in 1..NCols(x) |-> NpStat(name, Vec([r \in 1..NRows(x) |-> x[r][c]]))])

\* x - v[:, None]: v is subtracted from every column of the same row index.
\* numpy broadcasting needs len(v) = number of rows, or len(v) = 1.
BroadcastOk(x, v) == Len(v) = NRows(x) \/ Len(v) = 1

SubRowwise(x, v) ==
    Mat([r \in 1..NRows(x) |-> [c \in 1..Len(x[r]) |->
        RSub(x[r][c], IF Len(v) = 1 THEN v[1] ELSE v[r])]])

\* ---------------------------------------------------------------------- *
\* RawQuadrant (raw.py).  A quadrant object q is a record                  *
\*   [qid, ccdid, data, overscan]                                          *
\* ---------------------------------------------------------------------- *
Frames == {"raw", "read", "sky"}

\* the three branches of _reorder_data that name a pair of known frames
IsRawSky(in_, out_) == (in_ = "raw" /\ out_ = "sky") \/ (in_ = "sky" /\ out_ = "raw")

IsRawRead(in_, out_) == (in_ = "raw" /\ out_ = "read") \/ (in_ = "read" /\ out_ = "raw")

IsSkyRead(in_, out_) == (in_ = "sky" /\ out_ = "read") \/ (in_ = "read" /\ out_ = "sky")

\* raw <-> sky: data[::-1, ::-1]
ReorderRawSky(x) == FlipRows(FlipCols(x))

\* variant: the second test is an elif, so qid 3 is only column-reversed
ReorderRawRead_elif(qid, x) ==
    IF qid \in {2, 3} THEN FlipCols(x)
    ELSE IF qid \in {3, 4} THEN FlipRows(x) ELSE x

\* raw <-> read: data[:, ::-1] for qid 2, 3 and then data[::-1, :] for qid 3, 4
ReorderRawRead(qid, x) ==
    LET h == IF qid \in {2, 3} THEN FlipCols(x) ELSE x
    IN  IF qid \in {3, 4} THEN FlipRows(h) ELSE h

\* variant: read -> sky stops at the raw frame (the second step is lost)
_reorder_data_onestep(qid, x, in_, out_) ==
    IF in_ = out_ THEN x
    ELSE IF IsRawSky(in_, out_) THEN ReorderRawSky(x)
    ELSE IF IsRawRead(in_, out_) THEN ReorderRawRead(qid, x)
    ELSE IF IsSkyRead(in_, out_) THEN
        LET data_raw == IF in_ = "sky" THEN ReorderRawSky(x) ELSE ReorderRawRead(qid, x)
        IN  IF out_ = "sky" THEN data_raw ELSE ReorderRawRead(qid, data_raw)
    ELSE x

\* variant: the raw <-> sky rotation is skipped for quadrant 1
_reorder_data_qidsky(qid, x, in_, out_) ==
    IF in_ = out_ THEN x
    ELSE IF IsRawSky(in_, out_) THEN (IF qid = 1 THEN x ELSE ReorderRawSky(x))
    ELSE IF IsRawRead(in_, out_) THEN ReorderRawRead(qid, x)
    ELSE IF IsSkyRead(in_, out_) THEN
        LET data_raw == IF in_ = "sky" THEN ReorderRawSky(x) ELSE ReorderRawRead(qid, x)
        IN  IF out_ = "sky" THEN ReorderRawSky(data_raw) ELSE ReorderRawRead(qid, data_raw)
    ELSE x

\* RawQuadrant._reorder_data(data, in_, out_)
_reorder_data(qid, x, in_, out_) ==
    IF in_ = out_ THEN x
    ELSE IF IsRawSky(in_, out_) THEN ReorderRawSky(x)
    ELSE IF IsRawRead(in_, out_) THEN ReorderRawRead(qid, x)
    ELSE IF IsSkyRead(in_, out_) THEN
        \* the recursion of the code, unfolded: in_ -> raw, then raw -> out_
        LET data_raw == IF in_ = "sky" THEN ReorderRawSky(x) ELSE ReorderRawRead(qid, x)
        IN  IF out_ = "sky" THEN ReorderRawSky(data_raw) ELSE ReorderRawRead(qid, data_raw)
    ELSE x

\* the else branch of _reorder_data: warnings.warn(...) and the input returned
ReorderWarns(in_, out_) ==
    ~(in_ = out_ \/ IsRawSky(in_, out_) \/ IsRawRead(in_, out_) \/ IsSkyRead(in_, out_))

\* RawQuadrant.get_data_and_overscan(stacked=True)
get_data_and_overscan(q) ==
    HStack(_reorder_data(q.qid, q.data, "raw", "read"),
           _reorder_data(q.qid, q.overscan, "raw", "read"))

\* variant: the quadrant id is not brought back to a 0-based offset
rcid_qidoffset(q) == 4 * (q.ccdid - 1) + q.qid

\* RawQuadrant.rcid
rcid(q) == 4 * (q.ccdid - 1) + q.qid - 1

\* tools.ccdid_qid_to_rcid and tools.rcid_to_ccdid_qid, which the static
\* methods of FocalPlane forward to: the mapping of {1..16} x {1..4} to
\* {0..63} and its inverse
ccdid_qid_to_rcid(ccdid, qid) == 4 * (ccdid - 1) + qid - 1

rcid_to_ccdid_qid(r) == <<(r \div 4) + 1, (r % 4) + 1>>

\* no array
NoArr == <<>>

\* what a call gives back: the returned array, or the error it raised
Ok(d) == [err |-> "none", data |-> d]

Err(e) == [err |-> e, data |-> NoArr]

\* ---- overscan: data -> spec -> model ---------------------------------- *
\* userange is <<lo, hi>> or <<>> for None
NoRange == <<>>

\* variant: the strip of quadrants 2 and 3 is reversed along the columns only
OverscanData_hflip(q, which, userange) ==
    LET o == q.overscan
        d == IF which = "data"
             THEN (IF q.qid \in {2, 3} THEN FlipCols(o) ELSE FlipRows(o))
             ELSE o
    IN  IF userange # NoRange THEN SliceCols(d, userange[1], userange[2]) ELSE d

\* get_overscan(which) for which in raw, data, without the corrections
OverscanData(q, which, userange) ==
    LET o == q.overscan
        d == IF which = "data"
             THEN (IF q.qid \in {2, 3} THEN FlipRows(FlipCols(o)) ELSE FlipRows(o))
             ELSE o
    IN  IF userange # NoRange THEN SliceCols(d, userange[1], userange[2]) ELSE d

\* sigma_clipping=None
NoSigma == -1

\* variant: only the points below the median are flagged
_get_overscan_spec__lowside(x, sigma_clipping, stackstat, axis) ==
    LET spec == StatAxis(stackstat, x, axis)
        med_ == Median(spec)
    IN  IF sigma_clipping # NoSigma /\ sigma_clipping > 0
        THEN LET mad_ == nmad(spec)
                 lo == RSub(med_, RMul(Int2R(sigma_clipping), mad_))
             IN  Vec([i \in 1..Len(spec) |-> IF RLess(spec[i], lo) THEN NaN ELSE spec[i]])
        ELSE spec

\* RawQuadrant._get_overscan_spec_ (numpy branch)
_get_overscan_spec_(x, sigma_clipping, stackstat, axis) ==
    LET spec == StatAxis(stackstat, x, axis)
        med_ == Median(spec)
    IN  IF sigma_clipping # NoSigma /\ sigma_clipping > 0
        THEN LET mad_ == nmad(spec)
                 hi == RAdd(med_, RMul(Int2R(sigma_clipping), mad_))
                 lo == RSub(med_, RMul(Int2R(sigma_clipping), mad_))
             IN  Vec([i \in 1..Len(spec) |->
                    IF RLess(hi, spec[i]) \/ RLess(spec[i], lo) THEN NaN ELSE spec[i]])
        ELSE spec

\* get_overscan(which="spec")
OverscanSpec(q, p) ==
    _get_overscan_spec_(OverscanData(q, "data", p.userange),
                        p.sigma_clipping, p.stackstat, p.specaxis)

\* utils.tools.fit_polynome(x, y, degree): least-squares polynomial through
\* the (index, value) pairs whose value is not NaN, evaluated at every index.
fit_polynome(spec, degree) ==
    LET idx == {i \in 1..Len(spec) : ~IsNaN(spec[i])}
        n   == Cardinality(idx)
        ys  == DropNaN(spec)
        xs  == SelectSeq(Vec([i \in 1..Len(spec) |-> i - 1]), LAMBDA k : (k + 1) \in idx)
        Sx  == RSum(Vec([k \in 1..n |-> Int2R(xs[k])]))
        Sy  == RSum(ys)
        Sxx == RSum(Vec([k \in 1..n |-> Int2R(xs[k] * xs[k])]))
        Sxy == RSum(Vec([k \in 1..n |-> RMul(Int2R(xs[k]), ys[k])]))
        nn  == Int2R(n)
        slope == RDiv(RSub(RMul(nn, Sxy), RMul(Sx, Sy)), RSub(RMul(nn, Sxx), RMul(Sx, Sx)))
        icpt  == RDiv(RSub(Sy, RMul(slope, Sx)), nn)
    IN  IF n = 0 THEN Vec([i \in 1..Len(spec) |-> NaN])
        ELSE IF degree = 0 \/ n = 1 THEN Vec([i \in 1..Len(spec) |-> Mean(ys)])
        ELSE Vec([i \in 1..Len(spec) |-> RAdd(icpt, RMul(slope, Int2R(i - 1)))])

\* variant: the polynomial is evaluated on the unclipped points only
OverscanModel_dropnan(q, p) == fit_polynome(DropNaN(OverscanSpec(q, p)), p.modeldegree)

\* get_overscan(which="model")
OverscanModel(q, p) == fit_polynome(OverscanSpec(q, p), p.modeldegree)

\* ---- non-linearity ---------------------------------------------------- *
\* the table of get_nonlinearity_table(obsdate) is a function rcid -> <<a, b>>
\* over the rcids it has an entry for; .loc[rcid] raises KeyError otherwise
HasNonlinearity(q, table) == rcid(q) \in DOMAIN table

get_nonlinearity_corr(q, table) == table[rcid(q)]

\* variant: the denominator lacks the constant term
NLValue_noconstant(v, a, b) ==
    RDiv(v, RAdd(RMul(a, RMul(v, v)), RMul(b, v)))

\* data / (a*data**2 + b*data + 1), element-wise
NLValue(v, a, b) ==
    RDiv(v, RAdd(RAdd(RMul(a, RMul(v, v)), RMul(b, v)), Int2R(1)))

NLCorrect(x, ab) ==
    Mat([r \in 1..NRows(x) |-> [c \in 1..Len(x[r]) |-> NLValue(x[r][c], ab[1], ab[2])]])

\* ---- get_overscan ------------------------------------------------------ *
\* the default keyword arguments of get_overscan; userange=[20,30] of the
\* 30 overscan columns becomes the last column of the scaled strip
DefaultUserange == <<OverscanCols - 1, OverscanCols>>

DefaultOverscanProp ==
    [userange |-> DefaultUserange, sigma_clipping |-> 3, stackstat |-> "nanmedian",
     modeldegree |-> 1, specaxis |-> 1]

\* get_overscan(which, sigma_clipping, userange, stackstat, modeldegree,
\* specaxis, corr_overscan, corr_nl); p holds the five overscan keywords.
\* For raw and data the non-linearity is corrected first, then the model of
\* the default keywords is subtracted.  A which that is none of the four
\* modes reaches the final raise ValueError; the variant returns None there.
OverscanUnknownWhich_none(which) == Ok(NoArr)

OverscanUnknownWhich(which) == Err("ValueError")

get_overscan(q, which, p, corr_overscan, corr_nl, table) ==
    IF which \in {"raw", "data"}
    THEN LET d0 == OverscanData(q, which, p.userange)
         IN  IF corr_nl /\ ~HasNonlinearity(q, table) THEN Err("KeyError")
             ELSE LET d1 == IF corr_nl THEN NLCorrect(d0, get_nonlinearity_corr(q, table))
                            ELSE d0
                  IN  IF ~corr_overscan THEN Ok(d1)
                      ELSE LET os_model == OverscanModel(q, DefaultOverscanProp)
                           IN  IF ~BroadcastOk(d1, os_model) THEN Err("ValueError")
                               ELSE Ok(SubRowwise(d1, os_model))
    ELSE IF which = "spec" THEN Ok(OverscanSpec(q, p))
    ELSE IF which = "model" THEN Ok(OverscanModel(q, p))
    ELSE OverscanUnknownWhich(which)

\* ---- memory shared with the stored arrays ------------------------------ *
\* A working array either owns its buffer (Fresh) or is a view of the stored
\* data or overscan: slices and axis reversals give views, copy() and hstack
\* give new buffers.  The in-place statements (-=, /=) of a call write
\* through a view into the stored array.
Fresh == "none"

\* the positions <<row, column>> of an array; reordered and sliced like the
\* values, it tells which stored element each element of a view is
IndexArr(nr, nc) == Mat([r \in 1..nr |-> [c \in 1..nc |-> <<r, c>>]])

\* stored, with the elements idx points at replaced by those of v
WriteThrough(stored, idx, v) ==
    Mat([r \in 1..NRows(stored) |-> [c \in 1..NCols(stored) |->
        IF \E i \in 1..NRows(idx) : \E j \in 1..NCols(idx) : idx[i][j] = <<r, c>>
        THEN LET ij == CHOOSE ij \in (1..NRows(idx)) \X (1..NCols(idx)) :
                           idx[ij[1]][ij[2]] = <<r, c>>
             IN  v[ij[1]][ij[2]]
        ELSE stored[r][c]]])

\* variant: get_overscan works on the stored strip itself
OverscanCopy_view(owner) == owner

\* data = self.overscan.copy()
OverscanCopy(owner) == Fresh

\* the stored overscan after a get_overscan call that returned res: which raw
\* and data correct their working array in place
get_overscan_stored(q, which, userange, corr_overscan, corr_nl, res) ==
    IF OverscanCopy("overscan") = Fresh
         \/ which \notin {"raw", "data"}
         \/ ~(corr_overscan \/ corr_nl)
         \/ res.err # "none"
    THEN q.overscan
    ELSE LET idx == OverscanData([q EXCEPT !.overscan = IndexArr(NRows(@), NCols(@))],
                                 which, userange)
         IN  WriteThrough(q.overscan, idx, res.data)

\* data_ = self.data.copy() in the parent's get_data
DataCopy(owner) == Fresh

\* the buffer of data_ after the data access of get_data: the parent's copy,
\* or the new array hstack allocates
AccessOwner(f) == IF ~f.corr_pocket THEN DataCopy("data") ELSE Fresh

\* ---- pocket effect (ztfsensors.correct.correct_pixels) ----------------- *
\* The corrector is an injected collaborator that returns an array of the
\* shape it was given.  Two correctors: the identity, and one that adds to
\* each pixel the pixel read just before it on the same row (read order).
PocketModels == {"identity", "trail"}

correct_pixels(pockemodel, x, n_overscan) ==
    IF pockemodel = "identity" THEN x
    ELSE Mat([r \in 1..NRows(x) |-> [c \in 1..Len(x[r]) |->
            IF c = 1 THEN x[r][c] ELSE RAdd(x[r][c], x[r][c - 1])]])

\* variant: the leading columns are dropped, data_and_overscan[:, n_overscan:]
DropOverscanCols_leading(x, n_overscan) == SliceCols(x, n_overscan, NCols(x))

\* data_and_overscan[:, :-n_overscan]
DropOverscanCols(x, n_overscan) == SliceCols(x, 0, NCols(x) - n_overscan)

\* ---- rebin (utils.tools.rebin_arr + the reduction statistic) ----------- *
NoRebin == 0

RebinOk(x, f) == f > 0 /\ NRows(x) % f = 0 /\ NCols(x) % f = 0

\* block (i, j) of size f x f, flattened
RebinBlock(x, f, i, j) ==
    Vec([k \in 1..(f * f) |-> x[(i - 1) * f + ((k - 1) \div f) + 1][(j - 1) * f + ((k - 1) % f) + 1]])

\* getattr(np, stat)(rebin_arr(x, (f, f)), axis=(-2, -1))
RebinArr(x, f, stat) ==
    Mat([i \in 1..(NRows(x) \div f) |-> [j \in 1..(NCols(x) \div f) |->
        NpStat(stat, RebinBlock(x, f, i, j))]])

\* ---- RawQuadrant.get_data --------------------------------------------- *

\* the working state of one get_data call: the array data_, the frame it is
\* in (format_), the stages executed so far, the array handed to the pocket
\* corrector, whether the advisory warning was emitted, the error raised, and
\* data_ as the in-place corrections (-=, /=) left it
Work(d, fmt) ==
    [err |-> "none", data |-> d, format |-> fmt, stages |-> <<>>,
     pocket_in |-> NoArr, warned |-> FALSE, corrected |-> NoArr]

Fail(w, e) == [w EXCEPT !.err = e, !.data = NoArr]

\* super().get_data(rebin=None, reorder=False): the parent get_data that
\* takes the reorder keyword is not among the sources (_Image_.get_data has
\* no such parameter); by its contract it returns a copy of the stored data,
\* neither rebinned nor reordered, hence in the raw frame
Quadrant_get_data(q) == q.data

\* data access: a copy of the stored data, or data + overscan in read frame
StageAccess(q, f) ==
    IF ~f.corr_pocket THEN Work(Quadrant_get_data(q), "raw")
    ELSE Work(get_data_and_overscan(q), "read")

\* variant: the model is computed but the data are left as they are
StageOverscan_keep(q, f, w) ==
    IF w.err # "none" \/ ~f.corr_overscan THEN w
    ELSE [w EXCEPT !.stages = Append(@, "overscan")]

\* if corr_overscan: data_ -= os_model[:, None]
StageOverscan(q, f, w) ==
    IF w.err # "none" \/ ~f.corr_overscan THEN w
    ELSE LET os_model == OverscanModel(q, f.overscan_prop)
         IN  IF ~BroadcastOk(w.data, os_model) THEN Fail(w, "ValueError")
             ELSE [w EXCEPT !.data = SubRowwise(w.data, os_model),
                            !.stages = Append(@, "overscan")]

\* variant: a quadrant without coefficients is left uncorrected
StageNonlinearity_skip(q, f, table, w) ==
    IF w.err # "none" \/ ~f.corr_nl THEN w
    ELSE IF ~HasNonlinearity(q, table) THEN w
    ELSE [w EXCEPT !.data = NLCorrect(w.data, get_nonlinearity_corr(q, table)),
                   !.stages = Append(@, "nl")]

\* if corr_nl: data_ /= (a*data_**2 + b*data_ + 1)
StageNonlinearity(q, f, table, w) ==
    IF w.err # "none" \/ ~f.corr_nl THEN w
    ELSE IF ~HasNonlinearity(q, table) THEN Fail(w, "KeyError")
    ELSE [w EXCEPT !.data = NLCorrect(w.data, get_nonlinearity_corr(q, table)),
                   !.stages = Append(@, "nl")]

\* variant: the warning is given only when both corrections are missing
StagePocket_and(q, f, pockemodel, w) ==
    IF w.err # "none" \/ ~f.corr_pocket THEN w
    ELSE LET d_ == _reorder_data(q.qid, w.data, w.format, "read")
             n_overscan == NCols(q.overscan)
             data_and_overscan == correct_pixels(pockemodel, d_, n_overscan)
         IN  [w EXCEPT !.warned = ~f.corr_overscan /\ ~f.corr_nl,
                       !.format = "read",
                       !.pocket_in = d_,
                       !.data = DropOverscanCols(data_and_overscan, n_overscan),
                       !.stages = Append(@, "pocket")]

\* if corr_pocket: reorder to read, correct, slice the overscan columns off
StagePocket(q, f, pockemodel, w) ==
    IF w.err # "none" \/ ~f.corr_pocket THEN w
    ELSE LET d_ == _reorder_data(q.qid, w.data, w.format, "read")
             n_overscan == NCols(q.overscan)
             data_and_overscan == correct_pixels(pockemodel, d_, n_overscan)
         IN  [w EXCEPT !.warned = ~f.corr_overscan \/ ~f.corr_nl,
                       !.format = "read",
                       !.pocket_in = d_,
                       !.data = DropOverscanCols(data_and_overscan, n_overscan),
                       !.stages = Append(@, "pocket")]

\* if rebin is not None: block reduction with rebin_stat
StageRebin(f, w) ==
    IF w.err # "none" \/ f.rebin = NoRebin THEN w
    ELSE IF ~RebinOk(w.data, f.rebin) THEN Fail(w, "ValueError")
    ELSE [w EXCEPT !.data = RebinArr(w.data, f.rebin, f.rebin_stat),
                   !.stages = Append(@, "rebin")]

\* variant: the final reorder assumes the raw frame whatever format_ is
StageReorder_fromraw(q, f, w) ==
    IF w.err # "none" \/ ~f.reorder THEN w
    ELSE [w EXCEPT !.data = _reorder_data(q.qid, w.data, "raw", "sky"),
                   !.stages = Append(@, "reorder")]

\* if reorder: data_ = self._reorder_data(data_, in_=format_, out_="sky")
StageReorder(q, f, w) ==
    IF w.err # "none" \/ ~f.reorder THEN w
    ELSE [w EXCEPT !.data = _reorder_data(q.qid, w.data, w.format, "sky"),
                   !.stages = Append(@, "reorder")]

\* variant: the order of the docstring, nl first and overscan afterwards
StageCorrections_nlfirst(q, f, table, w) ==
    LET done == StageOverscan(q, f, StageNonlinearity(q, f, table, w))
    IN  [done EXCEPT !.corrected = done.data]

\* the correction stages in the order of the code: overscan, then nl
StageCorrections(q, f, table, w) ==
    LET done == StageNonlinearity(q, f, table, StageOverscan(q, f, w))
    IN  [done EXCEPT !.corrected = done.data]

\* variant: the rebinning is done right after the data access
get_data_rebinfirst(q, f, table, pockemodel) ==
    StageReorder(q, f, StagePocket(q, f, pockemodel,
        StageCorrections(q, f, table, StageRebin(f, StageAccess(q, f)))))

get_data(q, f, table, pockemodel) ==
    StageReorder(q, f,
      StageRebin(f,
        StagePocket(q, f, pockemodel,
          StageCorrections(q, f, table, StageAccess(q, f)))))

\* the stored data after a get_data call that ended as w: the overscan and
\* non-linearity stages correct data_ in place
get_data_stored(q, f, w) ==
    IF AccessOwner(f) = Fresh \/ ~(f.corr_overscan \/ f.corr_nl) \/ w.corrected = NoArr
    THEN q.data
    ELSE WriteThrough(q.data, IndexArr(NRows(q.data), NCols(q.data)), w.corrected)

\* ---- RawQuadrant.get_lastdata_firstoverscan ---------------------------- *
DefaultFlags ==
    [corr_overscan |-> FALSE, corr_nl |-> FALSE, corr_pocket |-> FALSE,
     rebin |-> NoRebin, rebin_stat |-> "nanmean", reorder |-> TRUE,
     overscan_prop |-> DefaultOverscanProp]

\* x[:, :n] and x[:, -n:] (slices are clipped to the columns there are)
FirstCols(x, n) == SliceCols(x, 0, IF n < NCols(x) THEN n ELSE NCols(x))

LastCols(x, n) == SliceCols(x, IF n < NCols(x) THEN NCols(x) - n ELSE 0, NCols(x))

\* x.squeeze(): a single column becomes a 1D array
Squeeze(x) == IF NCols(x) = 1 THEN Vec([r \in 1..NRows(x) |-> x[r][1]]) ELSE x

\* self.get_data(reorder=True, corr_overscan=..., corr_nl=...): the data in
\* the sky frame
LastFirstData(q, corr_overscan, corr_nl, table, pockemodel) ==
    get_data(q, [DefaultFlags EXCEPT !.reorder = TRUE, !.corr_overscan = corr_overscan,
                                     !.corr_nl = corr_nl], table, pockemodel)

\* self.get_overscan("raw", corr_overscan=..., corr_nl=...), with the default
\* keywords of get_overscan
LastFirstOverscan(q, corr_overscan, corr_nl, table) ==
    get_overscan(q, "raw", DefaultOverscanProp, corr_overscan, corr_nl, table)

\* the columns get_lastdata_firstoverscan takes of the data d and of the
\* overscan o it obtained: the first n for qid 1 and 4, the last n listed
\* backwards for qid 2 and 3, squeezed
LastFirstColumns(qid, n, d, o) ==
    IF d.err # "none" THEN [err |-> d.err, data |-> NoArr, overscan |-> NoArr]
    ELSE IF o.err # "none" THEN [err |-> o.err, data |-> NoArr, overscan |-> NoArr]
    ELSE IF qid \in {1, 4}
    THEN [err |-> "none", data |-> Squeeze(FirstCols(d.data, n)),
          overscan |-> Squeeze(FirstCols(o.data, n))]
    ELSE [err |-> "none", data |-> Squeeze(FlipCols(LastCols(d.data, n))),
          overscan |-> Squeeze(FlipCols(LastCols(o.data, n)))]

\* get_lastdata_firstoverscan(n, corr_overscan, corr_nl)
get_lastdata_firstoverscan(q, n, corr_overscan, corr_nl, table, pockemodel) ==
    LastFirstColumns(q.qid, n,
                     LastFirstData(q, corr_overscan, corr_nl, table, pockemodel),
                     LastFirstOverscan(q, corr_overscan, corr_nl, table))

\* ---------------------------------------------------------------------- *
\* _Image_, CCD and FocalPlane (base.py)                                   *
\* ---------------------------------------------------------------------- *
\* the result of a get_data call of the assembly classes
\* None in a quadrants / ccds mapping
NoQuad == [qid |-> 0, data |-> NoArr]

NoCCD == [quadrants |-> <<>>, inverted |-> FALSE]

\* _Image_.get_data(rebin, rebin_stat, data="data"): a copy of the data,
\* block-reduced when rebin is given
Image_get_data(q, rebin, rebin_stat) ==
    IF rebin = NoRebin THEN Ok(q.data)
    ELSE IF ~RebinOk(q.data, rebin) THEN Err("ValueError")
    ELSE Ok(RebinArr(q.data, rebin, rebin_stat))

\* variant: an unset quadrant contributes a NaN-filled array
QuadrantGetData_nanfill(q, rebin, rebin_stat) ==
    IF q = NoQuad THEN Ok(Full(QuadRows, QuadCols, NaN))
    ELSE Image_get_data(q, rebin, rebin_stat)

\* self.get_quadrant(i).get_data(rebin=rebin, **kwargs); get_quadrant returns
\* None for an unset quadrant and None has no get_data
QuadrantGetData(q, rebin, rebin_stat) ==
    IF q = NoQuad THEN Err("AttributeError")
    ELSE Image_get_data(q, rebin, rebin_stat)

\* concatenate(axis=1) / concatenate(axis=0) of a sequence of arrays
RECURSIVE HConcat(_)
HConcat(xs) == IF Len(xs) = 1 THEN xs[1] ELSE HStack(xs[1], HConcat(Tail(xs)))

RECURSIVE VConcat(_)
VConcat(xs) == IF Len(xs) = 1 THEN xs[1] ELSE VStack(xs[1], VConcat(Tail(xs)))

SameRows(xs) == \A i \in 1..Len(xs) : NRows(xs[i]) = NRows(xs[1])

SameCols(xs) == \A i \in 1..Len(xs) : NCols(xs[i]) = NCols(xs[1])

\* variant: the upper row lists the quadrants in ascending order
CcdUp_ascending(d, inverted) ==
    IF ~inverted THEN HConcat(<<d[1], d[2]>>) ELSE HConcat(<<d[3], d[4]>>)

\* ccd_up: [d[1], d[0]] or, inverted, [d[3], d[2]] (d is 0-indexed in the code)
CcdUp(d, inverted) ==
    IF ~inverted THEN HConcat(<<d[2], d[1]>>) ELSE HConcat(<<d[4], d[3]>>)

\* variant: a one-column gap separates the two quadrants of the lower row
CcdDown_gap(d, inverted) ==
    IF ~inverted THEN HConcat(<<d[3], Full(NRows(d[3]), 1, NaN), d[4]>>)
    ELSE HConcat(<<d[1], Full(NRows(d[1]), 1, NaN), d[2]>>)

\* ccd_down: [d[2], d[3]] or, inverted, [d[0], d[1]]
CcdDown(d, inverted) ==
    IF ~inverted THEN HConcat(<<d[3], d[4]>>) ELSE HConcat(<<d[1], d[2]>>)

\* CCD.get_data(rebin, npstat, rebin_ccd, **kwargs)
CcdGetData(ccd, rebin, rebin_stat, rebin_ccd, npstat) ==
    LET res == [i \in 1..4 |-> QuadrantGetData(ccd.quadrants[i], rebin, rebin_stat)]
        d   == [i \in 1..4 |-> res[i].data]
    IN  IF \E i \in 1..4 : res[i].err # "none"
        THEN Err(res[CHOOSE i \in 1..4 : res[i].err # "none"
                                         /\ \A j \in 1..(i - 1) : res[j].err = "none"].err)
        ELSE IF ~(SameRows(d) /\ SameCols(d)) THEN Err("ValueError")
        ELSE LET mosaic == VConcat(<<CcdDown(d, ccd.inverted), CcdUp(d, ccd.inverted)>>)
             IN  IF rebin_ccd = NoRebin THEN Ok(mosaic)
                 ELSE IF ~RebinOk(mosaic, rebin_ccd) THEN Err("ValueError")
                 ELSE Ok(RebinArr(mosaic, rebin_ccd, npstat))

\* CCD.set_quadrant(quadrant, qid): qid None (0) means quadrant.qid
CcdSetQuadrant(ccd, quadrant, qid) ==
    [ccd EXCEPT !.quadrants[IF qid = 0 THEN quadrant.qid ELSE qid] = quadrant]

\* CCD.has_quadrants("all")
has_quadrants(ccd) == \A k \in 1..4 : ccd.quadrants[k] # NoQuad

\* CCD.data: without a _data attribute (cached = NoArr) it returns None
\* (NoArr) while a quadrant is unset and otherwise runs load_data(), which
\* stores get_data() in _data; with a _data attribute it returns it.  The
\* result is [err, data, cached], cached being _data after the access.
CcdDataProperty(ccd, cached) ==
    IF cached # NoArr THEN [err |-> "none", data |-> cached, cached |-> cached]
    ELSE IF ~has_quadrants(ccd) THEN [err |-> "none", data |-> NoArr, cached |-> NoArr]
    ELSE LET loaded == CcdGetData(ccd, NoRebin, "nanmean", NoRebin, "mean")
         IN  IF loaded.err # "none"
             THEN [err |-> loaded.err, data |-> NoArr, cached |-> NoArr]
             ELSE [err |-> "none", data |-> loaded.data, cached |-> loaded.data]

\* CCD.SHAPE = 3080*2, 3072*2
CCD_SHAPE == <<QuadRows * 2, QuadCols * 2>>

\* the gap of 672 pixel rows between two rows of CCDs, and of 488 pixel
\* columns between two CCDs of a row, scaled with the shapes; like 672 and
\* 488 they are multiples of every factor that divides both quadrant sizes
GapRowPixels == 2

GapColPixels == 2

\* FocalPlane.get_datagap(which, rebin): (hpixels, vpixels) as rationals
get_datagap(which, rebin) ==
    LET hv == IF which \in {"horizontal", "row", "rows"}
              THEN <<Int2R(GapRowPixels), Int2R(CCD_SHAPE[2])>>
              ELSE <<Int2R(CCD_SHAPE[1]), Int2R(GapColPixels)>>
    IN  IF rebin # NoRebin
        THEN <<RDiv(hv[1], Int2R(rebin)), RDiv(hv[2], Int2R(rebin))>>
        ELSE hv

\* variant: the gap strips are left at one, da.ones(shape) without the NaN
GapArray_ones(nr, nc) == Full(nr, nc, Int2R(1))

\* da.ones(shape) * np.NaN
GapArray(nr, nc) == Full(nr, nc, NaN)

\* variant: the CCDs of a line are listed in ascending order
FpLineIds_ascending(line) == <<4 * line - 3, 4 * line - 2, 4 * line - 1, 4 * line>>

\* the CCDs of line_1 .. line_4, left to right: [4,3,2,1], [8,7,6,5], ...
FpLineIds(line) == <<4 * line, 4 * line - 1, 4 * line - 2, 4 * line - 3>>

\* a sequence with the element g between every two elements of xs
RECURSIVE Interleave(_, _)
Interleave(xs, g) ==
    IF Len(xs) <= 1 THEN xs ELSE <<xs[1], g>> \o Interleave(Tail(xs), g)

\* da.ones(shape) takes a shape of whole numbers (get_datagap hands it
\* floats once rebin is given)
IsWholeShape(shape) == \A i \in 1..Len(shape) : shape[i][2] = 1 /\ shape[i][1] >= 0

\* FocalPlane.get_data(rebin, incl_gap, **kwargs); rebin_ccd and npstat
\* travel in kwargs to CCD.get_data and are not seen by get_datagap
FpGetData(ccds, rebin, incl_gap, rebin_ccd, npstat) ==
    LET res == Vec([k \in 1..16 |->
                  IF ccds[k] = NoCCD THEN Err("AttributeError")
                  ELSE CcdGetData(ccds[k], rebin, "nanmean", rebin_ccd, npstat)])
        colgap == get_datagap("columns", rebin)
        rowgap == get_datagap("rows", rebin)
        LineParts(line) ==
            LET ids == FpLineIds(line)
                arrs == [j \in 1..4 |-> res[ids[j]].data]
            IN  IF incl_gap THEN Interleave(arrs, GapArray(colgap[1][1], colgap[2][1]))
                ELSE arrs
    IN  IF \E k \in 1..16 : res[k].err # "none"
        THEN Err(res[CHOOSE k \in 1..16 : res[k].err # "none"].err)
        ELSE IF incl_gap /\ ~(IsWholeShape(colgap) /\ IsWholeShape(rowgap))
        THEN Err("ValueError")
        ELSE IF \E line \in 1..4 : ~SameRows(LineParts(line)) THEN Err("ValueError")
        ELSE LET lines == [line \in 1..4 |-> HConcat(LineParts(line))]
                 size_shape == rowgap[1][1]
                 parts == IF incl_gap
                          THEN Interleave(lines, GapArray(size_shape, NCols(lines[1])))
                          ELSE lines
             IN  IF ~SameCols(parts) THEN Err("ValueError")
                 ELSE Ok(VConcat(parts))

\* FocalPlane.set_ccd(rawccd, ccdid)
FpSetCcd(ccds, rawccd, ccdid) == [ccds EXCEPT ![ccdid] = rawccd]

\* ---------------------------------------------------------------------- *
\* Inputs of the model                                                     *
\* ---------------------------------------------------------------------- *
\* an array of pairwise distinct integers: base, base + step, ... row by row
Ramp(nr, nc, base, step) ==
    Mat([r \in 1..nr |-> [c \in 1..nc |-> Int2R(base + step * ((r - 1) * nc + c - 1))]])

\* stored data of a quadrant
DataArrays ==
    {Ramp(QuadRows, QuadCols, 1, 1), Full(QuadRows, QuadCols, Int2R(0))}

\* stored overscan strips: constant, linear in the row and column index, and
\* constant with one outlying row
OverscanArrays ==
    {Full(QuadRows, OverscanCols, Int2R(10)),
     Mat([r \in 1..QuadRows |-> [c \in 1..OverscanCols |-> Int2R(2 * (r - 1) + 8 * (c - 1))]]),
     Mat([r \in 1..QuadRows |-> [c \in 1..OverscanCols |-> Int2R(IF r = 1 THEN 50 ELSE 10)]])}

CcdIds == {1, 16}

\* non-linearity coefficients <<a, b>>
Coeffs == << <<Int2R(0), Int2R(0)>>, <<Int2R(0), Int2R(1)>>, <<Int2R(0), Int2R(2)>> >>

\* tables with an entry for every rcid, or for every rcid except one
NLTables(missing) ==
    {[r \in 0..63 |-> Coeffs[((r + k) % 3) + 1]] : k \in 0..1}
        \cup {[r \in (0..63) \ {missing} |-> Coeffs[(r % 3) + 1]]}

SigmaChoices == {0, 3}

StackStats == {"nanmedian", "nanmean"}

ModelDegrees == {0, 1}

\* userange: None, or a half-open column range [lo, hi) of the overscan
UseRanges ==
    {NoRange} \cup {<<lo, hi>> : lo \in {0, OverscanCols - 1}, hi \in {OverscanCols}}

\* overscan_prop of get_data: overrides of the defaults
OverscanProps ==
    {[DefaultOverscanProp EXCEPT !.userange = u, !.sigma_clipping = s, !.modeldegree = dg] :
        u \in {NoRange, DefaultUserange}, s \in SigmaChoices, dg \in ModelDegrees}

\* the keywords of a direct get_overscan call
OverscanCallProps ==
    [userange : {NoRange, DefaultUserange}, sigma_clipping : SigmaChoices \cup {NoSigma},
     stackstat : StackStats, modeldegree : ModelDegrees, specaxis : {0, 1}]

\* values a caller may pass as which; "header" is not one of the four modes
WhichNames == {"raw", "data", "spec", "model", "header"}

\* get_overscan calls: the 1D modes with every keyword, the 2D modes (which
\* read userange only) with each userange and each pair of corrections, and
\* the unknown mode
OverscanCalls ==
    {[which |-> w, prop |-> p, corr_overscan |-> FALSE, corr_nl |-> FALSE] :
        w \in {"spec", "model"}, p \in OverscanCallProps}
    \cup {[which |-> w, prop |-> [DefaultOverscanProp EXCEPT !.userange = u],
           corr_overscan |-> co, corr_nl |-> cn] :
        w \in WhichNames \ {"spec", "model"}, u \in {NoRange, DefaultUserange},
        co \in BOOLEAN, cn \in BOOLEAN}

\* the n of get_lastdata_firstoverscan
ColumnCounts == 1..OverscanCols

RebinChoices == {NoRebin, 2}

\* a rebin factor that divides neither quadrant size
BadRebin == 3

GetDataFlags ==
    [corr_overscan : BOOLEAN, corr_nl : BOOLEAN, corr_pocket : BOOLEAN,
     rebin : RebinChoices, rebin_stat : {"nanmean"}, reorder : BOOLEAN,
     overscan_prop : OverscanProps]
    \cup [corr_overscan : BOOLEAN, corr_nl : BOOLEAN, corr_pocket : BOOLEAN,
          rebin : {BadRebin}, rebin_stat : {"nanmean"}, reorder : BOOLEAN,
          overscan_prop : {DefaultOverscanProp}]

\* frame names a caller may pass to _reorder_data; "ccd" is not a frame
FrameNames == Frames \cup {"ccd"}

\* ---------------------------------------------------------------------- *
\* The header of an image (_Image_.header, base.py)                        *
\* ---------------------------------------------------------------------- *
\* number of distinct headers (files) an image may be given
NHeaders == 4

\* the types the header property evaluates: dask's Delayed and DelayedAttr
HandleKinds == {"Delayed", "DelayedAttr"}

\* the image has no _header attribute
NoHeader == [kind |-> "unset", id |-> 0]

\* a deferred header, and the fits header it evaluates to
Handle(kind, id) == [kind |-> kind, id |-> id]

HeaderValue(id) == [kind |-> "Header", id |-> id]

IsHandle(h) == h.kind \in HandleKinds

\* handle.compute()
Compute(h) == HeaderValue(h.id)

\* variant: _compute_header evaluates the handle without storing the result
StoreHeader_keep(stored, computed) == stored

\* self._header = self._header.compute(): the value _header is assigned
StoreHeader(stored, computed) == computed

\* the condition of _compute_header
NeedsCompute(use_dask, h) == use_dask /\ IsHandle(h)

\* bound on the evaluations of one behaviour
MaxCompute == 3

\* the threads that may read the header property
Threads == {1, 2}

\* a reader's position in the header property and in _compute_header, the
\* object it holds, the value it returned and the error it raised
IdleThread == [pc |-> "idle", local |-> NoHeader, ret |-> NoHeader, err |-> "none"]

\* ---------------------------------------------------------------------- *
\* State                                                                   *
\* ---------------------------------------------------------------------- *
VARIABLES
    quad,       \* the RawQuadrant: [qid, ccdid, data, overscan]
    nl_table,   \* the non-linearity table of the observation date
    pocket,     \* the pocket corrector configured for the quadrant
    call,       \* the last call on the quadrant: [op, flags, in_, out_, which, n]
    ret,        \* what the last call returned (a Work record)
    ccd,        \* the CCD: [quadrants (qid -> quadrant or None), inverted]
    ccd_call,   \* the last call on the CCD: [op, rebin, rebin_ccd]
    ccd_ret,    \* what the last CCD call returned: [err, data]
    fp_ccds,    \* the FocalPlane: ccdid -> CCD or None
    fp_nset,    \* number of set_ccd calls made on the focal plane
    fp_call,    \* the last call on the focal plane: [op, rebin, incl_gap, rebin_ccd]
    fp_ret,     \* what the last focal plane call returned: [err, data]
    ccd_data,   \* the _data attribute of the CCD, NoArr while it has none
    img_use_dask,  \* the _use_dask attribute of an image
    img_header,    \* the _header attribute of the image: [kind, id]
    n_compute,     \* number of compute() calls made on header handles
    thr         \* the readers of the header property: thread -> [pc, local, ret, err]

qvars == <<quad, nl_table, pocket, call, ret>>

cvars == <<ccd, ccd_call, ccd_ret, ccd_data>>

fvars == <<fp_ccds, fp_nset, fp_call, fp_ret>>

hvars == <<img_use_dask, img_header, n_compute, thr>>

vars == <<quad, nl_table, pocket, call, ret, ccd, ccd_call, ccd_ret,
          fp_ccds, fp_nset, fp_call, fp_ret, ccd_data,
          img_use_dask, img_header, n_compute, thr>>

NoCall ==
    [op |-> "none", flags |-> DefaultFlags, in_ |-> "raw", out_ |-> "raw",
     which |-> "data", n |-> 1]

NoCcdCall == [op |-> "none", rebin |-> NoRebin, rebin_ccd |-> NoRebin]

NoFpCall == [op |-> "none", rebin |-> NoRebin, incl_gap |-> TRUE, rebin_ccd |-> NoRebin]

\* CCD(): no quadrant set
EmptyCCD(inverted) == [quadrants |-> [k \in 1..4 |-> NoQuad], inverted |-> inverted]

\* FocalPlane(): no CCD set
EmptyFP == [k \in 1..16 |-> NoCCD]

\* the objects of the classes a specification does not exercise
IdleQuadrant ==
    /\ quad = [qid |-> 1, ccdid |-> 1, data |-> Ramp(QuadRows, QuadCols, 1, 1),
               overscan |-> Full(QuadRows, OverscanCols, Int2R(10))]
    /\ nl_table = [r \in 0..63 |-> Coeffs[1]]
    /\ pocket = "identity"
    /\ call = NoCall
    /\ ret = Work(NoArr, "raw")

IdleCCD ==
    /\ ccd = EmptyCCD(FALSE)
    /\ ccd_call = NoCcdCall
    /\ ccd_ret = Ok(NoArr)
    /\ ccd_data = NoArr

\* _Image_(use_dask=True) with no header set and no reader of its header
IdleImage ==
    /\ img_use_dask = TRUE
    /\ img_header = NoHeader
    /\ n_compute = 0
    /\ thr = [t \in Threads |-> IdleThread]

IdleFP ==
    /\ fp_ccds = EmptyFP
    /\ fp_nset = 0
    /\ fp_call = NoFpCall
    /\ fp_ret = Ok(NoArr)

InitQuadrant ==
    /\ quad \in [qid : 1..4, ccdid : CcdIds, data : DataArrays, overscan : OverscanArrays]
    /\ nl_table \in NLTables(rcid(quad))
    /\ pocket \in PocketModels
    /\ call = NoCall
    /\ ret = Work(NoArr, "raw")
    /\ IdleCCD
    /\ IdleFP
    /\ IdleImage

\* quad.get_data(**flags)
GetData(f) ==
    /\ call.op = "none"
    /\ call' = [NoCall EXCEPT !.op = "get_data", !.flags = f]
    /\ ret' = get_data(quad, f, nl_table, pocket)
    /\ quad' = [quad EXCEPT !.data = get_data_stored(quad, f, ret')]
    /\ UNCHANGED <<nl_table, pocket, cvars, fvars, hvars>>

\* quad._reorder_data(quad.data, in_, out_)
ReorderData(in_, out_) ==
    /\ call.op = "none"
    /\ call' = [NoCall EXCEPT !.op = "_reorder_data", !.in_ = in_, !.out_ = out_]
    /\ ret' = [Work(_reorder_data(quad.qid, quad.data, in_, out_), out_)
                  EXCEPT !.warned = ReorderWarns(in_, out_)]
    /\ UNCHANGED <<quad, nl_table, pocket, cvars, fvars, hvars>>

\* quad.get_data_and_overscan(stacked=True)
GetDataAndOverscan ==
    /\ call.op = "none"
    /\ call' = [NoCall EXCEPT !.op = "get_data_and_overscan"]
    /\ ret' = Work(get_data_and_overscan(quad), "read")
    /\ UNCHANGED <<quad, nl_table, pocket, cvars, fvars, hvars>>

\* quad.get_overscan(which, **prop, corr_overscan, corr_nl)
GetOverscan(c) ==
    /\ call.op = "none"
    /\ call' = [NoCall EXCEPT !.op = "get_overscan", !.which = c.which,
                              !.flags = [DefaultFlags EXCEPT
                                            !.overscan_prop = c.prop,
                                            !.corr_overscan = c.corr_overscan,
                                            !.corr_nl = c.corr_nl]]
    /\ ret' = get_overscan(quad, c.which, c.prop, c.corr_overscan, c.corr_nl, nl_table)
    /\ quad' = [quad EXCEPT !.overscan = get_overscan_stored(quad, c.which, c.prop.userange,
                                             c.corr_overscan, c.corr_nl, ret')]
    /\ UNCHANGED <<nl_table, pocket, cvars, fvars, hvars>>

\* quad.get_lastdata_firstoverscan(n, corr_overscan, corr_nl)
GetLastdataFirstoverscan(n, corr_overscan, corr_nl) ==
    /\ call.op = "none"
    /\ call' = [NoCall EXCEPT !.op = "get_lastdata_firstoverscan", !.n = n,
                              !.flags = [DefaultFlags EXCEPT
                                            !.corr_overscan = corr_overscan,
                                            !.corr_nl = corr_nl]]
    /\ ret' = get_lastdata_firstoverscan(quad, n, corr_overscan, corr_nl, nl_table, pocket)
    /\ quad' = [quad EXCEPT
                  !.data = get_data_stored(quad, call'.flags,
                              LastFirstData(quad, corr_overscan, corr_nl, nl_table, pocket)),
                  !.overscan = get_overscan_stored(quad, "raw", DefaultUserange,
                                  corr_overscan, corr_nl,
                                  LastFirstOverscan(quad, corr_overscan, corr_nl, nl_table))]
    /\ UNCHANGED <<nl_table, pocket, cvars, fvars, hvars>>

\* the caller has taken the returned value; the quadrant is ready for the
\* next call (calls on one quadrant are sequential)
Return ==
    /\ call.op # "none"
    /\ call' = NoCall
    /\ ret' = Work(NoArr, "raw")
    /\ UNCHANGED <<quad, nl_table, pocket, cvars, fvars, hvars>>

NextQuadrant ==
    \/ \E f \in GetDataFlags : GetData(f)
    \/ \E in_ \in FrameNames, out_ \in FrameNames : ReorderData(in_, out_)
    \/ GetDataAndOverscan
    \/ \E c \in OverscanCalls : GetOverscan(c)
    \/ Return

SpecQuadrant == InitQuadrant /\ [][NextQuadrant]_vars

\* calls of get_lastdata_firstoverscan on a quadrant
NextLastFirst ==
    \/ \E n \in ColumnCounts, co \in BOOLEAN, cn \in BOOLEAN :
          GetLastdataFirstoverscan(n, co, cn)
    \/ Return

SpecLastFirst == InitQuadrant /\ [][NextLastFirst]_vars

\* ---------------------------------------------------------------------- *
\* The CCD state machine                                                   *
\* ---------------------------------------------------------------------- *
\* number of quadrant objects a caller may set on the CCD
NQuadObjs == 5

\* quadrant object j: its own qid and an array no other object shares a
\* value with
QuadObj(j) == [qid |-> ((j - 1) % 4) + 1, data |-> Ramp(QuadRows, QuadCols, 100 * j, 1)]

QuadPool == {QuadObj(j) : j \in 1..NQuadObjs}

InitCCD ==
    /\ ccd \in {EmptyCCD(inv) : inv \in BOOLEAN}
    /\ ccd_data = NoArr
    /\ ccd_call = NoCcdCall
    /\ ccd_ret = Ok(NoArr)
    /\ IdleQuadrant
    /\ IdleFP
    /\ IdleImage

\* ccd.set_quadrant(quadrant, qid); qid = 0 stands for qid=None
SetQuadrant(quadrant, qid) ==
    /\ ccd_call.op = "none"
    /\ ccd' = CcdSetQuadrant(ccd, quadrant, qid)
    /\ UNCHANGED <<ccd_call, ccd_ret, ccd_data, qvars, fvars, hvars>>

\* ccd.get_data(rebin=rebin, rebin_ccd=rebin_ccd)
CcdGetDataCall(rebin, rebin_ccd) ==
    /\ ccd_call.op = "none"
    /\ ccd_call' = [op |-> "get_data", rebin |-> rebin, rebin_ccd |-> rebin_ccd]
    /\ ccd_ret' = CcdGetData(ccd, rebin, "nanmean", rebin_ccd, "mean")
    /\ UNCHANGED <<ccd, ccd_data, qvars, fvars, hvars>>

\* the caller has taken the returned value
CcdReturn ==
    /\ ccd_call.op # "none"
    /\ ccd_call' = NoCcdCall
    /\ ccd_ret' = Ok(NoArr)
    /\ UNCHANGED <<ccd, ccd_data, qvars, fvars, hvars>>

\* ccd.data
CcdDataRead ==
    /\ ccd_call.op = "none"
    /\ ccd_call' = [NoCcdCall EXCEPT !.op = "data"]
    /\ LET res == CcdDataProperty(ccd, ccd_data)
       IN  /\ ccd_ret' = [err |-> res.err, data |-> res.data]
           /\ ccd_data' = res.cached
    /\ UNCHANGED <<ccd, qvars, fvars, hvars>>

NextCCD ==
    \/ \E quadrant \in QuadPool, qid \in 0..4 : SetQuadrant(quadrant, qid)
    \/ \E rebin \in RebinChoices, rebin_ccd \in RebinChoices : CcdGetDataCall(rebin, rebin_ccd)
    \/ CcdReturn

SpecCCD == InitCCD /\ [][NextCCD]_vars

\* set_quadrant calls and reads of the data property: every quadrant object
\* at its own qid or at qid 1
NextCCDData ==
    \/ \E quadrant \in QuadPool, qid \in 0..1 : SetQuadrant(quadrant, qid)
    \/ CcdDataRead
    \/ CcdReturn

SpecCCDData == InitCCD /\ [][NextCCDData]_vars

\* ---------------------------------------------------------------------- *
\* The FocalPlane state machine                                            *
\* ---------------------------------------------------------------------- *
\* CCD object j with its four quadrants set; no two objects share a value
CcdObj(j, inverted) ==
    [quadrants |-> [k \in 1..4 |->
                      [qid |-> k, data |-> Ramp(QuadRows, QuadCols, 1000 * j + 100 * k, 1)]],
     inverted |-> inverted]

\* the focal plane with CCD object k at ccdid k
FullFP(inverted) == [k \in 1..16 |-> CcdObj(k, inverted)]

\* bound on the set_ccd calls of one behaviour
MaxSetCcd == 1

\* the CCDs a caller may set: complete ones, and one lacking quadrant 3
CcdPool ==
    {CcdObj(17, inv) : inv \in BOOLEAN}
        \cup {[CcdObj(18, FALSE) EXCEPT !.quadrants[3] = NoQuad]}

\* the ccdids a caller sets or leaves unset: two corners and an inner CCD
SetCcdIds == {1, 7, 16}

InitFP ==
    /\ fp_ccds \in {FullFP(inv) : inv \in BOOLEAN}
                     \cup {[FullFP(FALSE) EXCEPT ![k] = NoCCD] : k \in SetCcdIds}
    /\ fp_nset = 0
    /\ fp_call = NoFpCall
    /\ fp_ret = Ok(NoArr)
    /\ IdleQuadrant
    /\ IdleCCD
    /\ IdleImage

\* fp.set_ccd(rawccd, ccdid)
SetCcd(rawccd, ccdid) ==
    /\ fp_call.op = "none"
    /\ fp_nset < MaxSetCcd
    /\ fp_ccds' = FpSetCcd(fp_ccds, rawccd, ccdid)
    /\ fp_nset' = fp_nset + 1
    /\ UNCHANGED <<fp_call, fp_ret, qvars, cvars, hvars>>

\* fp.get_data(rebin=rebin, incl_gap=incl_gap, rebin_ccd=rebin_ccd)
FpGetDataCall(rebin, incl_gap, rebin_ccd) ==
    /\ fp_call.op = "none"
    /\ fp_call' = [op |-> "get_data", rebin |-> rebin, incl_gap |-> incl_gap,
                   rebin_ccd |-> rebin_ccd]
    /\ fp_ret' = FpGetData(fp_ccds, rebin, incl_gap, rebin_ccd, "mean")
    /\ UNCHANGED <<fp_ccds, fp_nset, qvars, cvars, hvars>>

\* the caller has taken the returned value
FpReturn ==
    /\ fp_call.op # "none"
    /\ fp_call' = NoFpCall
    /\ fp_ret' = Ok(NoArr)
    /\ UNCHANGED <<fp_ccds, fp_nset, qvars, cvars, hvars>>

NextFP ==
    \/ \E rawccd \in CcdPool, ccdid \in SetCcdIds : SetCcd(rawccd, ccdid)
    \/ \E rebin \in RebinChoices, incl_gap \in BOOLEAN, rebin_ccd \in RebinChoices :
           FpGetDataCall(rebin, incl_gap, rebin_ccd)
    \/ FpReturn

SpecFP == InitFP /\ [][NextFP]_vars

\* ---------------------------------------------------------------------- *
\* Properties of the quadrant pipeline                                     *
\* ---------------------------------------------------------------------- *
IsGetData == call.op = "get_data" /\ ret.err = "none"

IsReorder == call.op = "_reorder_data"

\* position of a stage name in the stage log, 0 when absent
StagePos(stages, name) ==
    IF \E i \in 1..Len(stages) : stages[i] = name
    THEN CHOOSE i \in 1..Len(stages) : stages[i] = name
    ELSE 0

\* the model the overscan stage of the last call used
CallModel == OverscanModel(quad, call.flags.overscan_prop)

CallCoeffs == nl_table[rcid(quad)]

\* overscan-subtracted, then non-linearity-corrected value of pixel v, for
\* the model value m of its row
OverscanThenNL(v, m) ==
    NLValue(RSub(v, m), CallCoeffs[1], CallCoeffs[2])

C2_ReorderRoundTrip ==
    (IsReorder /\ call.in_ \in Frames /\ call.out_ \in Frames) =>
        _reorder_data(quad.qid, ret.data, call.out_, call.in_) = quad.data

C2_Witness ==
    /\ IsReorder /\ call.in_ = "read" /\ call.out_ = "sky"
    /\ quad.qid = 2
    /\ ret.data # quad.data
    /\ _reorder_data(quad.qid, ret.data, "sky", "read") = quad.data

\* C3: raw <-> read reverses the columns exactly when qid is 2 or 3 and the
\* rows exactly when qid is 3 or 4, independently; on a 2x2 array with four
\* distinct values quadrant 3 gives the double flip.
C3_RawReadFlips ==
    /\ (IsReorder /\ IsRawRead(call.in_, call.out_)) =>
          /\ Shape(ret.data) = <<QuadRows, QuadCols>>
          /\ \A r \in 1..QuadRows, c \in 1..QuadCols :
                ret.data[r][c] =
                    quad.data[IF quad.qid \in {3, 4} THEN QuadRows + 1 - r ELSE r]
                             [IF quad.qid \in {2, 3} THEN QuadCols + 1 - c ELSE c]
    /\ _reorder_data(3, <<<<1, 2>>, <<3, 4>>>>, "raw", "read") = <<<<4, 3>>, <<2, 1>>>>

C3_Witness ==
    /\ IsReorder /\ call.in_ = "raw" /\ call.out_ = "read"
    /\ quad.qid = 3
    /\ ret.data[1][1] = quad.data[QuadRows][QuadCols]
    /\ ret.data[1][1] # quad.data[1][QuadCols]
    /\ ret.data[1][1] # quad.data[QuadRows][1]

\* C4: raw <-> sky reverses both axes for every qid; sky -> read is sky -> raw
\* followed by raw -> read, and read -> sky is read -> raw followed by raw -> sky.
C4_RawSkyAndComposition ==
    /\ (IsReorder /\ IsRawSky(call.in_, call.out_)) =>
          /\ Shape(ret.data) = <<QuadRows, QuadCols>>
          /\ \A r \in 1..QuadRows, c \in 1..QuadCols :
                ret.data[r][c] = quad.data[QuadRows + 1 - r][QuadCols + 1 - c]
    /\ (IsReorder /\ IsSkyRead(call.in_, call.out_)) =>
          /\ ret.data = _reorder_data(quad.qid,
                            _reorder_data(quad.qid, quad.data, call.in_, "raw"),
                            "raw", call.out_)
          /\ \A r \in 1..QuadRows, c \in 1..QuadCols :
                ret.data[r][c] =
                    quad.data[IF quad.qid \in {3, 4} THEN r ELSE QuadRows + 1 - r]
                             [IF quad.qid \in {2, 3} THEN c ELSE QuadCols + 1 - c]

C4_Witness ==
    /\ IsReorder /\ call.in_ = "sky" /\ call.out_ = "read"
    /\ quad.qid = 4
    /\ ret.data[1][1] = quad.data[1][QuadCols]
    /\ ret.data[1][1] # quad.data[1][1]

\* the frame the working array of the last get_data call is in before the
\* final reorder
CallFrame == IF call.flags.corr_pocket THEN "read" ELSE "raw"

\* what the last get_data call returns when only its reorder flag is cleared
CallUnordered ==
    get_data(quad, [call.flags EXCEPT !.reorder = FALSE], nl_table, pocket).data

C6_PocketStackAndSlice ==
    (IsGetData /\ call.flags.corr_pocket) =>
        /\ NCols(quad.overscan) > 0
        /\ Shape(ret.pocket_in) = <<QuadRows, QuadCols + NCols(quad.overscan)>>
        /\ (~call.flags.corr_overscan /\ ~call.flags.corr_nl) =>
              \A r \in 1..QuadRows :
                  LET rr == IF quad.qid \in {3, 4} THEN QuadRows + 1 - r ELSE r
                  IN  /\ \A c \in 1..QuadCols :
                            ret.pocket_in[r][c] =
                                quad.data[rr][IF quad.qid \in {2, 3} THEN QuadCols + 1 - c ELSE c]
                      /\ \A c \in 1..OverscanCols :
                            ret.pocket_in[r][QuadCols + c] =
                                quad.overscan[rr][IF quad.qid \in {2, 3}
                                                  THEN OverscanCols + 1 - c ELSE c]
        /\ (call.flags.rebin = NoRebin /\ ~call.flags.reorder) =>
              /\ Shape(ret.data) = Shape(quad.data)
              /\ LET corrected == correct_pixels(pocket, ret.pocket_in, NCols(quad.overscan))
                 IN  \A r \in 1..QuadRows, c \in 1..QuadCols :
                        ret.data[r][c] = corrected[r][c]

C6_Witness ==
    /\ IsGetData /\ call.flags.corr_pocket
    /\ ~call.flags.corr_overscan /\ ~call.flags.corr_nl
    /\ call.flags.rebin = NoRebin /\ ~call.flags.reorder
    /\ pocket = "trail" /\ quad.qid = 3
    /\ Shape(ret.data) = <<QuadRows, QuadCols>>
    /\ ret.pocket_in[1][QuadCols + 1] = quad.overscan[QuadRows][OverscanCols]
    /\ ret.data[1][2] = RAdd(quad.data[QuadRows][QuadCols - 1], quad.data[QuadRows][QuadCols])
    /\ ret.data[1][1] # ret.data[1][2]

\* ---------------------------------------------------------------------- *
\* Properties of the CCD and FocalPlane assembly                           *
\* ---------------------------------------------------------------------- *
IsCcdGetData == ccd_call.op = "get_data"

\* the arrays the four quadrants of the CCD return for the last call
CcdQuadrantArrays ==
    Vec([k \in 1..4 |-> Image_get_data(ccd.quadrants[k], ccd_call.rebin, "nanmean").data])

\* C7: CCD.get_data puts [qid2, qid1] in the top row and [qid3, qid4] in the
\* bottom row, or [qid4, qid3] over [qid1, qid2] when _POS_INVERTED; a row is
\* concatenated left to right and the bottom row takes the lower row indices.
C7_CcdLayout ==
    (IsCcdGetData /\ ccd_ret.err = "none" /\ ccd_call.rebin_ccd = NoRebin) =>
        LET d      == CcdQuadrantArrays
            nr     == NRows(d[1])
            nc     == NCols(d[1])
            top    == IF ccd.inverted THEN <<4, 3>> ELSE <<2, 1>>
            bottom == IF ccd.inverted THEN <<1, 2>> ELSE <<3, 4>>
        IN  /\ Shape(ccd_ret.data) = <<2 * nr, 2 * nc>>
            /\ \A r \in 1..nr, c \in 1..nc :
                  /\ ccd_ret.data[r][c] = d[bottom[1]][r][c]
                  /\ ccd_ret.data[r][nc + c] = d[bottom[2]][r][c]
                  /\ ccd_ret.data[nr + r][c] = d[top[1]][r][c]
                  /\ ccd_ret.data[nr + r][nc + c] = d[top[2]][r][c]

C7_Witness ==
    /\ IsCcdGetData /\ ccd_ret.err = "none"
    /\ ccd_call.rebin = NoRebin /\ ccd_call.rebin_ccd = NoRebin
    /\ ~ccd.inverted
    /\ \A k \in 1..4 : ccd.quadrants[k] = QuadObj(k)
    /\ ccd_ret.data[1][1] = QuadObj(3).data[1][1]
    /\ ccd_ret.data[2 * QuadRows][2 * QuadCols] = QuadObj(1).data[QuadRows][QuadCols]

\* C8: with at least one of the quadrants 1..4 unset, CCD.get_data fails with
\* an error and returns no mosaic.
C8_MissingQuadrantFails ==
    (IsCcdGetData /\ ~has_quadrants(ccd)) =>
        /\ ccd_ret.err # "none"
        /\ ccd_ret.data = NoArr

C8_Witness ==
    /\ IsCcdGetData
    /\ Cardinality({k \in 1..4 : ccd.quadrants[k] # NoQuad}) = 3
    /\ ccd_ret.err = "AttributeError"
    /\ ccd_ret.data = NoArr

\* ---------------------------------------------------------------------- *
\* The rcid conversions                                                    *
\* ---------------------------------------------------------------------- *
\* a returned scalar or tuple
Value(v) == [err |-> "none", value |-> v]

\* quadrants of every CCD and amplifier
InitRcid ==
    /\ quad \in [qid : 1..4, ccdid : 1..16, data : {Ramp(QuadRows, QuadCols, 1, 1)},
                  overscan : {Full(QuadRows, OverscanCols, Int2R(10))}]
    /\ nl_table = [r \in 0..63 |-> Coeffs[1]]
    /\ pocket = "identity"
    /\ call = NoCall
    /\ ret = Work(NoArr, "raw")
    /\ IdleCCD
    /\ IdleFP
    /\ IdleImage

\* quad.rcid
Rcid ==
    /\ call.op = "none"
    /\ call' = [NoCall EXCEPT !.op = "rcid"]
    /\ ret' = Value(rcid(quad))
    /\ UNCHANGED <<quad, nl_table, pocket, cvars, fvars, hvars>>

\* FocalPlane.ccdid_qid_to_rcid(ccdid, qid)
FpCcdidQidToRcid(ccdid, qid) ==
    /\ fp_call.op = "none"
    /\ fp_call' = [op |-> "ccdid_qid_to_rcid", ccdid |-> ccdid, qid |-> qid]
    /\ fp_ret' = Value(ccdid_qid_to_rcid(ccdid, qid))
    /\ UNCHANGED <<fp_ccds, fp_nset, qvars, cvars, hvars>>

\* FocalPlane.rcid_to_ccdid_qid(rcid)
FpRcidToCcdidQid(r) ==
    /\ fp_call.op = "none"
    /\ fp_call' = [op |-> "rcid_to_ccdid_qid", rcid |-> r]
    /\ fp_ret' = Value(rcid_to_ccdid_qid(r))
    /\ UNCHANGED <<fp_ccds, fp_nset, qvars, cvars, hvars>>

NextRcid ==
    \/ Rcid
    \/ \E ccdid \in 1..16, qid \in 1..4 : FpCcdidQidToRcid(ccdid, qid)
    \/ \E r \in 0..63 : FpRcidToCcdidQid(r)
    \/ Return
    \/ FpReturn

SpecRcid == InitRcid /\ [][NextRcid]_vars

\* ---------------------------------------------------------------------- *
\* Properties                                                              *
\* ---------------------------------------------------------------------- *
IsFpGetData == fp_call.op = "get_data" /\ fp_ret.err = "none"

\* the mosaics the sixteen CCDs return for the last focal plane call
FpCcdArrays ==
    Vec([k \in 1..16 |->
            CcdGetData(fp_ccds[k], fp_call.rebin, "nanmean", fp_call.rebin_ccd, "mean").data])

\* the height of the row gaps and the width of the column gaps of the last
\* focal plane call, in pixels of the returned mosaic
FpGapRows == IF fp_call.rebin = NoRebin THEN GapRowPixels ELSE GapRowPixels \div fp_call.rebin

FpGapCols == IF fp_call.rebin = NoRebin THEN GapColPixels ELSE GapColPixels \div fp_call.rebin

\* C9: the sixteen CCD mosaics form a 4x4 grid whose row blocks are, in order,
\* CCDs [4,3,2,1], [8,7,6,5], [12,11,10,9], [16,15,14,13], listed left to
\* right, with and without gaps.
C9_FpGrid ==
    IsFpGetData =>
        LET a  == FpCcdArrays
            h  == NRows(a[1])
            w  == NCols(a[1])
            gr == IF fp_call.incl_gap THEN FpGapRows ELSE 0
            gc == IF fp_call.incl_gap THEN FpGapCols ELSE 0
        IN  \A i \in 1..4, j \in 1..4 :
                \A r \in 1..h, c \in 1..w :
                    fp_ret.data[(i - 1) * (h + gr) + r][(j - 1) * (w + gc) + c]
                        = a[4 * i + 1 - j][r][c]

C9_Witness ==
    /\ IsFpGetData /\ fp_call.incl_gap /\ fp_call.rebin_ccd = NoRebin
    /\ fp_call.rebin = NoRebin
    /\ fp_ccds = FullFP(FALSE)
    /\ fp_ret.data[1][1] = CcdObj(4, FALSE).quadrants[3].data[1][1]
    /\ fp_ret.data[1][3 * (CCD_SHAPE[2] + GapColPixels) + 1]
          = CcdObj(1, FALSE).quadrants[3].data[1][1]
    /\ fp_ret.data[3 * (CCD_SHAPE[1] + GapRowPixels) + 1][1]
          = CcdObj(16, FALSE).quadrants[3].data[1][1]

\* the rows / columns of the gap strips in a mosaic of CCDs of size n with
\* gaps of size g
GapIndices(n, g) == {i * (n + g) - g + k : i \in 1..3, k \in 1..g}

\* x without the rows of rs and the columns of cs
DeleteRowsCols(x, rs, cs) ==
    LET keepR == SelectSeq(Vec([i \in 1..NRows(x) |-> i]), LAMBDA i : i \notin rs)
        keepC == SelectSeq(Vec([i \in 1..NCols(x) |-> i]), LAMBDA i : i \notin cs)
    IN  Mat([p \in 1..Len(keepR) |-> [q \in 1..Len(keepC) |-> x[keepR[p]][keepC[q]]]])

\* C10: with incl_gap=True there is one NaN column strip between every two
\* CCDs of a row (3 per row) and one NaN row strip between every two rows of
\* CCDs (3 in all); every gap element is NaN, and the mosaic without the gap
\* rows and columns is the mosaic of incl_gap=False.
C10_FpGaps ==
    (IsFpGetData /\ fp_call.incl_gap) =>
        LET a  == FpCcdArrays
            h  == NRows(a[1])
            w  == NCols(a[1])
            rs == GapIndices(h, FpGapRows)
            cs == GapIndices(w, FpGapCols)
            m  == fp_ret.data
        IN  /\ Shape(m) = <<4 * h + 3 * FpGapRows, 4 * w + 3 * FpGapCols>>
            /\ \A r \in rs, c \in 1..NCols(m) : IsNaN(m[r][c])
            /\ \A r \in 1..NRows(m), c \in cs : IsNaN(m[r][c])
            /\ DeleteRowsCols(m, rs, cs)
                  = FpGetData(fp_ccds, fp_call.rebin, FALSE, fp_call.rebin_ccd, "mean").data

C10_Witness ==
    /\ IsFpGetData /\ fp_call.incl_gap /\ fp_call.rebin = NoRebin
    /\ IsNaN(fp_ret.data[CCD_SHAPE[1] + 1][1])
    /\ IsNaN(fp_ret.data[1][CCD_SHAPE[2] + 1])
    /\ ~IsNaN(fp_ret.data[1][1])
    /\ ~IsNaN(fp_ret.data[CCD_SHAPE[1] + GapRowPixels + 1][CCD_SHAPE[2] + GapColPixels + 1])
    /\ \E k \in 1..16 : fp_ccds[k] = CcdObj(17, TRUE)

\* the factor by which the CCD arrays of the last focal plane call were
\* reduced upstream: the quadrant-level rebin times the CCD-level rebin_ccd
FpRebinFactor ==
    (IF fp_call.rebin = NoRebin THEN 1 ELSE fp_call.rebin)
        * (IF fp_call.rebin_ccd = NoRebin THEN 1 ELSE fp_call.rebin_ccd)

\* a focal plane call with gaps whose sixteen CCD arrays were all obtained
IsFpGapCall ==
    /\ fp_call.op = "get_data" /\ fp_call.incl_gap
    /\ \A k \in 1..16 : fp_ccds[k] # NoCCD
    /\ \A k \in 1..16 :
          CcdGetData(fp_ccds[k], fp_call.rebin, "nanmean", fp_call.rebin_ccd, "mean").err = "none"

\* C11: for any rebin factor applied upstream to the CCD arrays (rebin or
\* rebin_ccd), the gap strips have the unbinned gap sizes divided by that
\* factor, are integer-sized, and the column gaps have the row count of the
\* rebinned CCD arrays they are concatenated with.
C11_GapScalesWithRebin ==
    IsFpGapCall =>
        LET colgap == get_datagap("columns", fp_call.rebin)
            rowgap == get_datagap("rows", fp_call.rebin)
            f      == Int2R(FpRebinFactor)
        IN  /\ colgap[2] = RDiv(Int2R(GapColPixels), f)
            /\ rowgap[1] = RDiv(Int2R(GapRowPixels), f)
            /\ IsWholeShape(colgap) /\ IsWholeShape(rowgap)
            /\ colgap[1] = Int2R(NRows(FpCcdArrays[1]))

\* C12: (ccdid, qid) -> 4*(ccdid-1) + qid - 1 is a bijection of
\* {1..16} x {1..4} onto {0..63}: converting an rcid to (ccdid, qid) and back
\* gives the rcid, converting a (ccdid, qid) to an rcid and back gives the
\* pair, and the rcid property of a quadrant is the rcid of its (ccdid, qid).
C12_RcidBijection ==
    /\ fp_call.op = "rcid_to_ccdid_qid" =>
          /\ fp_ret.value[1] \in 1..16 /\ fp_ret.value[2] \in 1..4
          /\ ccdid_qid_to_rcid(fp_ret.value[1], fp_ret.value[2]) = fp_call.rcid
    /\ fp_call.op = "ccdid_qid_to_rcid" =>
          /\ fp_ret.value \in 0..63
          /\ fp_ret.value = 4 * (fp_call.ccdid - 1) + fp_call.qid - 1
          /\ rcid_to_ccdid_qid(fp_ret.value) = <<fp_call.ccdid, fp_call.qid>>
    /\ call.op = "rcid" =>
          /\ ret.value = ccdid_qid_to_rcid(quad.ccdid, quad.qid)
          /\ rcid_to_ccdid_qid(ret.value) = <<quad.ccdid, quad.qid>>

C12_Witness ==
    /\ call.op = "rcid" /\ quad.ccdid = 16 /\ quad.qid = 4 /\ ret.value = 63
    /\ fp_call.op = "rcid_to_ccdid_qid" /\ fp_call.rcid = 63 /\ fp_ret.value = <<16, 4>>

IsGetOverscan(which) ==
    /\ call.op = "get_overscan" /\ call.which = which
    /\ ~call.flags.corr_overscan /\ ~call.flags.corr_nl

\* the columns of x a userange keeps
UseRange(x, userange) ==
    IF userange = NoRange THEN x ELSE SliceCols(x, userange[1], userange[2])

\* C13 as stated: get_overscan(which='data') reorders the raw overscan strip
\* by a horizontal flip (columns reversed only) when qid is 2 or 3, and by a
\* vertical flip (rows reversed only) otherwise.
C13_OverscanDataFlips ==
    IsGetOverscan("data") =>
        ret.data = UseRange(IF quad.qid \in {2, 3} THEN FlipCols(quad.overscan)
                            ELSE FlipRows(quad.overscan),
                            call.flags.overscan_prop.userange)

\* C13, amended: get_overscan(which='data') reverses the row axis of the raw
\* overscan strip for every qid, and reverses the column axis as well when
\* qid is 2 or 3; userange then selects columns of the reordered strip.
C13_OverscanDataRowsAlways ==
    IsGetOverscan("data") =>
        ret.data = UseRange(IF quad.qid \in {2, 3} THEN FlipRows(FlipCols(quad.overscan))
                            ELSE FlipRows(quad.overscan),
                            call.flags.overscan_prop.userange)

C13_Witness ==
    /\ IsGetOverscan("data") /\ quad.qid = 2
    /\ call.flags.overscan_prop.userange = NoRange
    /\ ret.err = "none"
    /\ ret.data # FlipCols(quad.overscan)
    /\ ret.data = FlipRows(FlipCols(quad.overscan))

\* C14: in _get_overscan_spec_, with a positive sigma_clipping every point
\* of the collapsed spectrum farther than sigma_clipping * MAD from the
\* spectrum's median, above or below, is replaced by NaN and every other
\* point keeps its collapsed value; with sigma_clipping None or 0 no point
\* is altered.
C14_SigmaClipping ==
    IsGetOverscan("spec") =>
        LET p     == call.flags.overscan_prop
            x     == OverscanData(quad, "data", p.userange)
            spec  == StatAxis(p.stackstat, x, p.specaxis)
            med   == Median(spec)
            mad   == nmad(spec)
            clip  == p.sigma_clipping # NoSigma /\ p.sigma_clipping > 0
            Far(i) == RLess(RMul(Int2R(p.sigma_clipping), mad), RAbs(RSub(spec[i], med)))
        IN  /\ ret.err = "none"
            /\ Len(ret.data) = Len(spec)
            /\ \A i \in 1..Len(spec) :
                  IF clip /\ Far(i) THEN IsNaN(ret.data[i]) ELSE ret.data[i] = spec[i]

C14_Witness ==
    /\ IsGetOverscan("spec") /\ call.flags.overscan_prop.sigma_clipping = 3
    /\ \E i \in 1..Len(ret.data) : IsNaN(ret.data[i])
    /\ \E i \in 1..Len(ret.data) : ~IsNaN(ret.data[i])

\* C15: for every userange, stacking statistic, spectrum axis and polynomial
\* degree (degree 0 included), get_overscan(which='model') returns a 1D array
\* as long as get_overscan(which='spec') for the same arguments.
C15_ModelLength ==
    IsGetOverscan("model") =>
        LET p    == call.flags.overscan_prop
            spec == get_overscan(quad, "spec", p, FALSE, FALSE, nl_table).data
        IN  /\ ret.err = "none"
            /\ Len(ret.data) = Len(spec)
            /\ Len(ret.data) = IF p.specaxis = 1 THEN NRows(quad.overscan)
                               ELSE NCols(UseRange(quad.overscan, p.userange))
            /\ \A i \in 1..Len(ret.data) : Len(ret.data[i]) = 2

C15_Witness ==
    /\ IsGetOverscan("model") /\ call.flags.overscan_prop.modeldegree = 0
    /\ Len(ret.data) = QuadRows
    /\ HasNaN(OverscanSpec(quad, call.flags.overscan_prop))
    /\ \A i \in 1..Len(ret.data) : ~IsNaN(ret.data[i])

\* C16: get_overscan called with a which other than 'raw', 'data', 'spec' or
\* 'model' fails with an error and returns no array.
C16_InvalidWhich ==
    (call.op = "get_overscan" /\ call.which \notin {"raw", "data", "spec", "model"}) =>
        (ret.err # "none" /\ ret.data = NoArr)

C16_Witness ==
    /\ call.op = "get_overscan" /\ call.which = "header"
    /\ ret.err = "ValueError"

\* C17: _reorder_data called with a pair (in_, out_) that is not a pair of
\* names from {raw, read, sky} signals an error instead of returning an array.
C17_InvalidFrameFails ==
    (IsReorder /\ ~({call.in_, call.out_} \subseteq Frames)) =>
        (ret.err # "none" /\ ret.data = NoArr)

\* C18: when corr_nl is requested and the non-linearity table has no
\* coefficients for the quadrant's rcid, get_data fails with an error; it
\* never returns data on which the non-linearity stage was skipped.
C18_MissingCoefficientsFail ==
    (call.op = "get_data" /\ call.flags.corr_nl /\ rcid(quad) \notin DOMAIN nl_table) =>
        (ret.err # "none" /\ ret.data = NoArr)

C18_Witness ==
    /\ call.op = "get_data" /\ call.flags.corr_nl /\ ~call.flags.corr_overscan
    /\ rcid(quad) \notin DOMAIN nl_table
    /\ ret.err = "KeyError"

\* the working array of the last get_data call just before the rebinning
CallBeforeRebin ==
    get_data(quad, [call.flags EXCEPT !.rebin = NoRebin, !.reorder = FALSE],
             nl_table, pocket)

\* stage a comes before stage b in the log, when both ran
StageBefore(stages, a, b) ==
    (StagePos(stages, a) # 0 /\ StagePos(stages, b) # 0)
        => StagePos(stages, a) < StagePos(stages, b)

\* C19: the rebinning of get_data comes after the overscan, non-linearity
\* and pocket stages and before the final reorder, and a rebin factor that
\* does not divide both dimensions of the array is a fatal error, never a
\* truncated or padded result.
C19_RebinLastAndExact ==
    (call.op = "get_data" /\ call.flags.rebin # NoRebin) =>
        LET pre == CallBeforeRebin
            f   == call.flags.rebin
        IN  IF pre.err # "none" THEN ret.err # "none" /\ ret.data = NoArr
            ELSE IF NRows(pre.data) % f # 0 \/ NCols(pre.data) % f # 0
                 THEN ret.err # "none" /\ ret.data = NoArr
            ELSE /\ ret.err = "none"
                 /\ StagePos(ret.stages, "rebin") # 0
                 /\ StageBefore(ret.stages, "overscan", "rebin")
                 /\ StageBefore(ret.stages, "nl", "rebin")
                 /\ StageBefore(ret.stages, "pocket", "rebin")
                 /\ StageBefore(ret.stages, "rebin", "reorder")
                 /\ Shape(ret.data) = <<NRows(pre.data) \div f, NCols(pre.data) \div f>>
                 /\ CallUnordered = RebinArr(pre.data, f, call.flags.rebin_stat)

C19_Witness ==
    /\ call.op = "get_data" /\ call.flags.rebin = BadRebin
    /\ call.flags.corr_overscan /\ call.flags.corr_nl /\ call.flags.corr_pocket
    /\ CallBeforeRebin.err = "none"
    /\ CallBeforeRebin.stages = <<"overscan", "nl", "pocket">>
    /\ ret.err = "ValueError" /\ ret.data = NoArr

\* the last get_data call without its pocket correction
CallWithoutPocket ==
    get_data(quad, [call.flags EXCEPT !.corr_pocket = FALSE], nl_table, pocket)

\* C20: when corr_pocket is requested while corr_overscan or corr_nl is not,
\* get_data emits a warning, still carries out the pocket correction and
\* returns the result; requesting the pocket correction adds no failure, and
\* no warning is emitted when both corr_overscan and corr_nl are requested.
C20_PocketAdvisory ==
    (call.op = "get_data" /\ call.flags.corr_pocket) =>
        /\ (ret.err # "none") => (CallWithoutPocket.err # "none")
        /\ (ret.err = "none") =>
              /\ ret.warned = (~call.flags.corr_overscan \/ ~call.flags.corr_nl)
              /\ StagePos(ret.stages, "pocket") # 0
              /\ ret.data # NoArr

C20_Witness ==
    /\ call.op = "get_data" /\ call.flags.corr_pocket
    /\ call.flags.corr_overscan /\ ~call.flags.corr_nl
    /\ pocket = "trail"
    /\ ret.err = "none" /\ ret.warned
    /\ StagePos(ret.stages, "pocket") # 0
    /\ ret.data # CallWithoutPocket.data

\* the last call on the quadrant made again on the quadrant as it is now
CallAgain ==
    CASE call.op = "get_data" -> get_data(quad, call.flags, nl_table, pocket)
      [] call.op = "get_overscan" ->
            get_overscan(quad, call.which, call.flags.overscan_prop,
                         call.flags.corr_overscan, call.flags.corr_nl, nl_table)
      [] call.op = "get_data_and_overscan" -> Work(get_data_and_overscan(quad), "read")
      [] OTHER -> ret

\* C21: no call to get_data, get_data_and_overscan or get_overscan changes an
\* element of the stored data or of the stored overscan, so that repeating a
\* call with the same arguments returns an equal result.
C21_StoredArraysUnchanged ==
    /\ [][quad'.data = quad.data /\ quad'.overscan = quad.overscan]_vars
    /\ [](CallAgain = ret)

C21_Witness ==
    /\ call.op = "get_overscan" /\ call.which = "data"
    /\ call.flags.corr_nl /\ call.flags.corr_overscan
    /\ ret.err = "none"
    /\ ret.data # OverscanData(quad, "data", call.flags.overscan_prop.userange)
    /\ quad.overscan \in OverscanArrays
    /\ CallAgain = ret

\* every element of the 2D array x equals v
AllPixels(x, v) ==
    \A r \in 1..NRows(x) : \A c \in 1..NCols(x) : x[r][c] = v

\* the last call is get_data(corr_overscan=True) without the non-linearity and
\* pocket corrections, on all-zero data next to a constant-10 overscan strip
ZeroDataConstantOverscan ==
    /\ IsGetData
    /\ call.flags.corr_overscan /\ ~call.flags.corr_nl /\ ~call.flags.corr_pocket
    /\ quad.data = Full(QuadRows, QuadCols, Int2R(0))
    /\ quad.overscan = Full(QuadRows, OverscanCols, Int2R(10))

CcdAssemblyCall ==
    /\ IsCcdGetData
    /\ ccd_call.rebin = NoRebin /\ ccd_call.rebin_ccd = NoRebin
    /\ \A k \in 1..4 : /\ ccd.quadrants[k] # NoQuad
                       /\ Shape(ccd.quadrants[k].data) = <<QuadRows, QuadCols>>

\* C23: with no rebinning, CCD.get_data over four quadrants of the quadrant
\* shape returns an array of exactly twice that shape on each axis, which is
\* CCD.SHAPE, with every row of the full width and no gap (NaN) element, for
\* both values of _POS_INVERTED.
C23_CcdShape ==
    CcdAssemblyCall =>
        /\ ccd_ret.err = "none"
        /\ Shape(ccd_ret.data) = <<2 * QuadRows, 2 * QuadCols>>
        /\ Shape(ccd_ret.data) = CCD_SHAPE
        /\ \A r \in 1..NRows(ccd_ret.data) :
              /\ Len(ccd_ret.data[r]) = CCD_SHAPE[2]
              /\ \A c \in 1..CCD_SHAPE[2] : IsFinite(ccd_ret.data[r][c])

C23_Witness ==
    /\ CcdAssemblyCall
    /\ ccd.inverted
    /\ Shape(ccd_ret.data) = CCD_SHAPE
    /\ ccd_ret.data[1][1] = ccd.quadrants[1].data[1][1]

\* the last call is a get_data that ran the non-linearity stage with the
\* coefficients a = 0 and b = 0
IdentityNLCall ==
    /\ IsGetData
    /\ call.flags.corr_nl
    /\ StagePos(ret.stages, "nl") > 0
    /\ CallCoeffs = <<Int2R(0), Int2R(0)>>

\* the same call without the non-linearity correction
CallWithoutNL ==
    get_data(quad, [call.flags EXCEPT !.corr_nl = FALSE], nl_table, pocket)

\* C24: with the coefficients a = 0 and b = 0 the non-linearity stage returns
\* every pixel unchanged: the call returns the array it returns without the
\* non-linearity correction, and each value v is mapped to v itself.
C24_IdentityNL ==
    IdentityNLCall =>
        /\ ret.data = CallWithoutNL.data
        /\ \A r \in 1..NRows(quad.data), c \in 1..NCols(quad.data) :
              NLValue(quad.data[r][c], CallCoeffs[1], CallCoeffs[2]) = quad.data[r][c]

C24_Witness ==
    /\ IdentityNLCall
    /\ ~call.flags.corr_overscan /\ ~call.flags.corr_pocket
    /\ call.flags.rebin = NoRebin /\ ~call.flags.reorder
    /\ quad.data = Ramp(QuadRows, QuadCols, 1, 1)
    /\ ret.data = quad.data

\* ---------------------------------------------------------------------- *
\* The header state machine                                                *
\* ---------------------------------------------------------------------- *
\* an image of either mode whose header is unset, a fits header, or a
\* deferred header
InitHeader ==
    /\ img_use_dask \in BOOLEAN
    /\ img_header \in {NoHeader} \cup {HeaderValue(i) : i \in 1..NHeaders}
                      \cup {Handle(k, i) : k \in HandleKinds, i \in 1..NHeaders}
    /\ n_compute = 0
    /\ thr = [t \in Threads |-> IdleThread]
    /\ IdleQuadrant
    /\ IdleCCD
    /\ IdleFP

\* header: if not hasattr(self, "_header"): return None
HeaderHasattr(t) ==
    /\ thr[t].pc = "idle"
    /\ thr' = [thr EXCEPT ![t] = IF img_header = NoHeader
                                  THEN [@ EXCEPT !.pc = "done", !.ret = NoHeader]
                                  ELSE [@ EXCEPT !.pc = "check"]]
    /\ UNCHANGED <<img_use_dask, img_header, n_compute, qvars, cvars, fvars>>

\* _compute_header: if self._use_dask and type(self._header) in [Delayed, DelayedAttr]
HeaderCheck(t) ==
    /\ thr[t].pc = "check"
    /\ thr' = [thr EXCEPT ![t].pc = IF NeedsCompute(img_use_dask, img_header)
                                     THEN "load" ELSE "return"]
    /\ UNCHANGED <<img_use_dask, img_header, n_compute, qvars, cvars, fvars>>

\* _compute_header: self._header.compute is looked up on the object stored
\* now; a fits header has no compute attribute
HeaderLoad(t) ==
    /\ thr[t].pc = "load"
    /\ thr' = [thr EXCEPT ![t] = IF IsHandle(img_header)
                                  THEN [@ EXCEPT !.pc = "compute", !.local = img_header]
                                  ELSE [@ EXCEPT !.pc = "done", !.err = "AttributeError"]]
    /\ UNCHANGED <<img_use_dask, img_header, n_compute, qvars, cvars, fvars>>

\* _compute_header: the call of compute() on the handle
HeaderCompute(t) ==
    /\ thr[t].pc = "compute"
    /\ n_compute < MaxCompute
    /\ n_compute' = n_compute + 1
    /\ thr' = [thr EXCEPT ![t] = [@ EXCEPT !.pc = "store", !.local = Compute(@)]]
    /\ UNCHANGED <<img_use_dask, img_header, qvars, cvars, fvars>>

\* _compute_header: self._header = <the computed value>
HeaderStore(t) ==
    /\ thr[t].pc = "store"
    /\ img_header' = StoreHeader(img_header, thr[t].local)
    /\ thr' = [thr EXCEPT ![t].pc = "return"]
    /\ UNCHANGED <<img_use_dask, n_compute, qvars, cvars, fvars>>

\* header: return self._header
HeaderReturn(t) ==
    /\ thr[t].pc = "return"
    /\ thr' = [thr EXCEPT ![t] = [@ EXCEPT !.pc = "done", !.ret = img_header]]
    /\ UNCHANGED <<img_use_dask, img_header, n_compute, qvars, cvars, fvars>>

\* the reader has taken the value and may access the header again
HeaderAgain(t) ==
    /\ thr[t].pc = "done"
    /\ thr[t].err = "none"
    /\ thr' = [thr EXCEPT ![t] = IdleThread]
    /\ UNCHANGED <<img_use_dask, img_header, n_compute, qvars, cvars, fvars>>

\* one access of the header property by thread t, step by step
HeaderAccess(t) ==
    \/ HeaderHasattr(t)
    \/ HeaderCheck(t)
    \/ HeaderLoad(t)
    \/ HeaderCompute(t)
    \/ HeaderStore(t)
    \/ HeaderReturn(t)

\* one reader accessing the header again and again
NextHeader ==
    \/ HeaderAccess(1)
    \/ HeaderAgain(1)

SpecHeader == InitHeader /\ [][NextHeader]_vars

\* two threads, each reading the header once
NextHeaderThreads == \E t \in Threads : HeaderAccess(t)

SpecHeaderThreads == InitHeader /\ [][NextHeaderThreads]_vars

\* reader 1 has completed an access of a header that is set
HeaderAccessed == thr[1].pc = "done" /\ img_header # NoHeader

\* a stored fits header stays as it is and causes no evaluation
CachedHeaderKept ==
    [][img_header.kind = "Header" =>
          (img_header' = img_header /\ n_compute' = n_compute)]_vars

\* the stored header changes only from a handle to the value it computes to
ReplacedByComputed ==
    [][img_header' # img_header =>
          (IsHandle(img_header) /\ img_header' = Compute(img_header))]_vars

\* C25 as stated: for an image whose header was set as a deferred handle, a
\* sequence of header accesses evaluates the handle at most once; the first
\* access replaces the stored handle by its computed value and every later
\* access returns that cached value without evaluating again.
C25_EvaluatedOnce ==
    /\ [](n_compute <= 1)
    /\ [](HeaderAccessed => (img_header.kind = "Header" /\ thr[1].ret = img_header))
    /\ CachedHeaderKept
    /\ ReplacedByComputed

\* C25 amended: the same for an image created with use_dask=True; an image
\* created with use_dask=False returns the handle it was given.
C25_EvaluatedOnceWithDask ==
    /\ [](n_compute <= 1)
    /\ []((HeaderAccessed /\ img_use_dask) =>
            (img_header.kind = "Header" /\ thr[1].ret = img_header))
    /\ []((HeaderAccessed /\ ~img_use_dask) =>
            (n_compute = 0 /\ thr[1].ret = img_header))
    /\ CachedHeaderKept
    /\ ReplacedByComputed

\* a later access of a header that was deferred: nothing is computed by it
C25_Witness ==
    /\ img_use_dask
    /\ n_compute = 1
    /\ thr[1].pc = "done" /\ thr[1].local = NoHeader
    /\ thr[1].ret = HeaderValue(1)
    /\ img_header = HeaderValue(1)

\* both threads have left the header property, by a return or by an error
BothReadsOver == \A t \in Threads : thr[t].pc = "done"

\* C30: two threads read the header of a use_dask image concurrently while
\* the stored header is a handle: under every interleaving neither read
\* fails, both return the computed header, and the stored header ends as the
\* computed value.
C30_ConcurrentReads ==
    (img_use_dask /\ img_header # NoHeader /\ BothReadsOver) =>
        /\ img_header.kind = "Header"
        /\ \A t \in Threads : thr[t].err = "none" /\ thr[t].ret = img_header

\* get_data with the two corrections in the order of the docstrings: the
\* non-linearity first, the overscan model afterwards
GetDataNLFirst(q, f, table, pockemodel) ==
    StageReorder(q, f,
      StageRebin(f,
        StagePocket(q, f, pockemodel,
          StageCorrections_nlfirst(q, f, table, StageAccess(q, f)))))

\* C26: in get_data and in get_overscan (which raw or data), with corr_overscan
\* and corr_nl both true, the non-linearity correction is applied first and
\* the overscan model is subtracted afterwards.
C26_NLBeforeOverscan ==
    /\ (IsGetData /\ call.flags.corr_overscan /\ call.flags.corr_nl) =>
          /\ StagePos(ret.stages, "nl") < StagePos(ret.stages, "overscan")
          /\ ret.data = GetDataNLFirst(quad, call.flags, nl_table, pocket).data
    /\ (call.op = "get_overscan" /\ call.which \in {"raw", "data"} /\ ret.err = "none"
          /\ call.flags.corr_overscan /\ call.flags.corr_nl) =>
          ret.data = SubRowwise(
                        NLCorrect(OverscanData(quad, call.which,
                                               call.flags.overscan_prop.userange),
                                  CallCoeffs),
                        OverscanModel(quad, DefaultOverscanProp))

IsLastFirst ==
    /\ call.op = "get_lastdata_firstoverscan" /\ ret.err = "none"
    /\ ~call.flags.corr_overscan /\ ~call.flags.corr_nl

\* the stored data and the full overscan strip in the order the amplifier
\* reads them
ReadData == _reorder_data(quad.qid, quad.data, "raw", "read")

ReadOverscan == _reorder_data(quad.qid, quad.overscan, "raw", "read")

\* the n data columns read last, the one next to the overscan first, and the
\* n overscan columns read first; rev lists the rows in reverse
LastReadData(n, rev) ==
    Squeeze(Mat([r \in 1..QuadRows |-> [k \in 1..n |->
        ReadData[IF rev THEN QuadRows + 1 - r ELSE r][QuadCols + 1 - k]]]))

FirstReadOverscan(n, rev) ==
    Squeeze(Mat([r \in 1..QuadRows |-> [k \in 1..n |->
        ReadOverscan[IF rev THEN QuadRows + 1 - r ELSE r][k]]]))

\* C27: for every qid and every n >= 1, get_lastdata_firstoverscan(n) returns
\* the n data columns the amplifier reads last and the n overscan columns it
\* reads first (columns 0..n-1 of the full strip in read order), whichever
\* way the rows of each are listed.
C27_LastDataFirstOverscan ==
    IsLastFirst =>
        /\ \E rev \in BOOLEAN : ret.data = LastReadData(call.n, rev)
        /\ \E rev \in BOOLEAN : ret.overscan = FirstReadOverscan(call.n, rev)

\* the raw-frame row that row r of the working array of get_data holds: the
\* raw frame itself, or the read frame, whose rows are reversed for qid 3, 4
WorkRawRow(r) ==
    IF call.flags.corr_pocket /\ quad.qid \in {3, 4} THEN QuadRows + 1 - r ELSE r

\* the index of the overscan model that is derived from raw-frame row r of
\* the strip: the spectrum is taken on get_overscan("data"), whose rows are
\* the raw rows reversed
ModelIndexOfRawRow(r) == QuadRows + 1 - r

\* C28: whenever get_data subtracts the overscan model, the value subtracted
\* from row r of the working array is the model value of the overscan row that
\* is the same raw-frame row as r, on the raw-frame path (no pocket
\* correction) and on the read-frame path (pocket correction).
C28_SamePhysicalRow ==
    (IsGetData /\ call.flags.corr_overscan /\ ~call.flags.corr_nl) =>
        LET m == CallModel
        IN  /\ (~call.flags.corr_pocket /\ call.flags.rebin = NoRebin
                  /\ ~call.flags.reorder) =>
                  \A r \in 1..QuadRows, c \in 1..QuadCols :
                      ret.data[r][c] =
                          RSub(quad.data[r][c], m[ModelIndexOfRawRow(WorkRawRow(r))])
            /\ call.flags.corr_pocket =>
                  LET stacked == get_data_and_overscan(quad)
                  IN  \A r \in 1..QuadRows, c \in 1..(QuadCols + OverscanCols) :
                          ret.pocket_in[r][c] =
                              RSub(stacked[r][c], m[ModelIndexOfRawRow(WorkRawRow(r))])

\* C29: after any sequence of set_quadrant calls and reads of CCD.data, the
\* value CCD.data returns is None while a quadrant is unset, and otherwise the
\* mosaic get_data() assembles from the quadrants set at the time of the read.
C29_DataReflectsQuadrants ==
    ccd_call.op = "data" =>
        IF ~has_quadrants(ccd) THEN ccd_ret = Ok(NoArr)
        ELSE ccd_ret = CcdGetData(ccd, NoRebin, "nanmean", NoRebin, "mean")

====
